---- MODULE Spec2Model ----
(***************************************************************************)
(* A model of the nominal rule engine: the criterion tree, the action      *)
(* pipeline, Rule.apply and the NominalProcessor that classifies documents *)
(* and keeps the batch-level global variables.                             *)
(*                                                                         *)
(* A text (str) is a sequence of one-character strings.  A dict is a       *)
(* function whose DOMAIN is its key set.  An Optional value is a tagged    *)
(* record: NoneV, Some(v), or Raised(e) for a call that raises.            *)
(***************************************************************************)
EXTENDS Integers, Sequences, FiniteSets, TLC

\* ------------------------------------------------------------------------
\* Bounds of the model
\* ------------------------------------------------------------------------
MaxRules == 2

MaxBatch == 2

MaxUnmatched == 2

MaxActions == 3

\* ------------------------------------------------------------------------
\* Values
\* ------------------------------------------------------------------------
NoneV == [tag |-> "none"]

Some(v) == [tag |-> "some", val |-> v]

Raised(e) == [tag |-> "raise", exc |-> e]

IsNone(o) == o.tag = "none"

IsSome(o) == o.tag = "some"

IsRaised(o) == o.tag = "raise"

EmptyDict == [k \in {} |-> <<>>]

\* d[k] = v
DictSet(d, k, v) == [x \in (DOMAIN d) \cup {k} |-> IF x = k THEN v ELSE d[x]]

\* d.update(other)
DictUpdate(d, other) ==
    [x \in (DOMAIN d) \cup (DOMAIN other) |-> IF x \in DOMAIN other THEN other[x] ELSE d[x]]

\* body(v), with v evaluated once
Bind(v, body(_)) == CHOOSE y \in {body(x) : x \in {v}} : TRUE

Max(S) == CHOOSE m \in S : \A n \in S : n <= m

Min(S) == CHOOSE m \in S : \A n \in S : m <= n

\* ------------------------------------------------------------------------
\* Text: str.lower, str.upper, the `in` operator, slicing
\* ------------------------------------------------------------------------
Digits == {"1", "2"}

Spaces == {" "}

Char == {"f", "F"} \cup Digits \cup Spaces

LowerChar(c) == IF c = "F" THEN "f" ELSE c

UpperChar(c) == IF c = "f" THEN "F" ELSE c

StrLower(s) == [i \in 1..Len(s) |-> LowerChar(s[i])]

StrUpper(s) == [i \in 1..Len(s) |-> UpperChar(s[i])]

\* needle in hay
StrIn(needle, hay) ==
    \E s \in 0..(Len(hay) - Len(needle)) :
        \A i \in 1..Len(needle) : hay[s + i] = needle[i]

\* Python's normalisation of one slice bound against a string of length n:
\* None takes the default, a negative index counts from the end, and the
\* result is clamped to 0..n.
SliceBound(b, n, default) ==
    IF IsNone(b) THEN default
    ELSE IF b.val < 0 THEN (IF n + b.val < 0 THEN 0 ELSE n + b.val)
    ELSE IF b.val > n THEN n ELSE b.val

\* s[start:end]
StrSlice(s, start, end) ==
    LET lo == SliceBound(start, Len(s), 0)
        hi == SliceBound(end, Len(s), Len(s))
    IN  IF lo >= hi THEN <<>> ELSE SubSeq(s, lo + 1, hi)

\* ------------------------------------------------------------------------
\* Regular expressions.  A pattern is [valid, atoms, groups]: atoms is a
\* sequence of [cls, plus] (a character class, once or one-or-more times,
\* greedy), groups a sequence of <<first atom, last atom>> spans.  An
\* invalid pattern makes re.search raise re.error.
\* ------------------------------------------------------------------------
\* the longest run of characters of cls in text after position p
RunLen(cls, text, p) ==
    Max({k \in 0..(Len(text) - p) : \A j \in 1..k : text[p + j] \in cls})

RECURSIVE MatchFrom(_, _, _, _)
\* The match of atoms[i..] at position p that a backtracking matcher finds
\* first: NoneV, or Some(the end position of each atom).
MatchFrom(atoms, i, text, p) ==
    IF i > Len(atoms) THEN Some(<<>>)
    ELSE Bind(RunLen(atoms[i].cls, text, p), LAMBDA run :
         Bind({k \in 1..(IF atoms[i].plus THEN run ELSE IF run >= 1 THEN 1 ELSE 0) :
                  IsSome(MatchFrom(atoms, i + 1, text, p + k))}, LAMBDA ks :
         IF ks = {} THEN NoneV
         ELSE Bind(Max(ks), LAMBDA k :
              Some(<<p + k>> \o MatchFrom(atoms, i + 1, text, p + k).val))))

\* re.search(pattern, text) for a valid pattern: the leftmost match
ReSearch(pattern, text) ==
    Bind({s \in 0..Len(text) : IsSome(MatchFrom(pattern.atoms, 1, text, s))}, LAMBDA starts :
    IF starts = {} THEN NoneV
    ELSE Bind(Min(starts), LAMBDA s :
         Some([start |-> s, ends |-> MatchFrom(pattern.atoms, 1, text, s).val])))

\* the end position of the whole match m
MatchEnd(m) == IF Len(m.ends) = 0 THEN m.start ELSE m.ends[Len(m.ends)]

\* match.group(g) for 0 <= g <= len(match.groups())
MatchGroup(pattern, text, m, g) ==
    IF g = 0 THEN SubSeq(text, m.start + 1, MatchEnd(m))
    ELSE LET span == pattern.groups[g]
             from == IF span[1] = 1 THEN m.start ELSE m.ends[span[1] - 1]
         IN  SubSeq(text, from + 1, m.ends[span[2]])

RECURSIVE ReSplitFrom(_, _, _)
\* re.split(pattern, text) from position p on, for a pattern whose matches
\* are never empty: the pieces between the matches, each match's groups
\* following the piece before it.
ReSplitFrom(pattern, text, p) ==
    Bind({s \in p..Len(text) : IsSome(MatchFrom(pattern.atoms, 1, text, s))}, LAMBDA starts :
    IF starts = {} THEN <<SubSeq(text, p + 1, Len(text))>>
    ELSE Bind(Min(starts), LAMBDA s :
         Bind([start |-> s, ends |-> MatchFrom(pattern.atoms, 1, text, s).val], LAMBDA m :
         <<SubSeq(text, p + 1, s)>>
         \o [g \in 1..Len(pattern.groups) |-> MatchGroup(pattern, text, m, g)]
         \o ReSplitFrom(pattern, text, MatchEnd(m)))))

ReSplit(pattern, text) == ReSplitFrom(pattern, text, 0)

\* ------------------------------------------------------------------------
\* Criteria: match(text) -> (matches, captured)
\* ------------------------------------------------------------------------
MatchResult(m, c) == [matches |-> m, captured |-> c]

ContainsMatch(c, text) ==
    LET search_text  == IF c.case_sensitive THEN text ELSE StrLower(text)
        search_value == IF c.case_sensitive THEN c.value ELSE StrLower(c.value)
    IN  MatchResult(StrIn(search_value, search_text), EmptyDict)

RegexMatch(c, text) ==
    IF ~c.pattern.valid THEN MatchResult(FALSE, EmptyDict)
    ELSE Bind(ReSearch(c.pattern, text), LAMBDA m :
         IF IsNone(m) THEN MatchResult(FALSE, EmptyDict)
         ELSE IF c.capture /\ IsSome(c.variable)
              THEN MatchResult(TRUE,
                       DictSet(EmptyDict, c.variable.val,
                               MatchGroup(c.pattern, text, m.val, 0)))
              ELSE MatchResult(TRUE, EmptyDict))

RECURSIVE CriterionMatch(_, _)
RECURSIVE AllMatchFrom(_, _, _, _)
RECURSIVE AnyMatchFrom(_, _, _)

\* the loop of AllCriterion.match from sub-criterion i on
AllMatchFrom(subs, i, text, all_captured) ==
    IF i > Len(subs) THEN MatchResult(TRUE, all_captured)
    ELSE Bind(CriterionMatch(subs[i], text), LAMBDA r :
         IF ~r.matches THEN MatchResult(FALSE, EmptyDict)
         ELSE Bind(DictUpdate(all_captured, r.captured), LAMBDA updated :
              AllMatchFrom(subs, i + 1, text, updated)))

AllMatch(c, text) == AllMatchFrom(c.sub_criteria, 1, text, EmptyDict)

\* the loop of AnyCriterion.match from sub-criterion i on
AnyMatchFrom(subs, i, text) ==
    IF i > Len(subs) THEN MatchResult(FALSE, EmptyDict)
    ELSE Bind(CriterionMatch(subs[i], text), LAMBDA r :
         IF r.matches THEN MatchResult(TRUE, r.captured)
         ELSE AnyMatchFrom(subs, i + 1, text))

AnyMatch(c, text) == AnyMatchFrom(c.sub_criteria, 1, text)

CriterionMatch(c, text) ==
    CASE c.type = "contains" -> ContainsMatch(c, text)
      [] c.type = "regex"    -> RegexMatch(c, text)
      [] c.type = "all"      -> AllMatch(c, text)
      [] c.type = "any"      -> AnyMatch(c, text)

\* ------------------------------------------------------------------------
\* Actions: act(text, variables) -> Optional[str]
\* ------------------------------------------------------------------------
SetAct(a, text, variables) == a.value

RegexExtractAct(a, text, variables) ==
    IF ~a.from_text THEN NoneV
    ELSE IF ~a.pattern.valid THEN NoneV
    ELSE Bind(ReSearch(a.pattern, text), LAMBDA m :
         IF IsNone(m) THEN NoneV
         ELSE IF a.group < Len(a.pattern.groups) + 1
              THEN (IF a.group < 0 THEN Raised("IndexError")
                    ELSE Some(MatchGroup(a.pattern, text, m.val, a.group)))
              ELSE NoneV)

ArgOr(args, key, default) == IF key \in DOMAIN args THEN args[key] ELSE default

\* variant: derive without the test for an existing value
DeriveAct_overwrite(a, text, variables) ==
    IF a.from_var \notin DOMAIN variables THEN NoneV
    ELSE CASE a.method = "slice" ->
                 Some(StrSlice(variables[a.from_var],
                               ArgOr(a.args, "start", NoneV), ArgOr(a.args, "end", NoneV)))
           [] a.method = "upper" -> Some(StrUpper(variables[a.from_var]))
           [] a.method = "lower" -> Some(StrLower(variables[a.from_var]))
           [] OTHER -> NoneV

DeriveAct(a, text, variables) ==
    IF a.variable \in DOMAIN variables THEN NoneV
    ELSE IF a.from_var \notin DOMAIN variables THEN NoneV
    ELSE CASE a.method = "slice" ->
                 Some(StrSlice(variables[a.from_var],
                               ArgOr(a.args, "start", NoneV), ArgOr(a.args, "end", NoneV)))
           [] a.method = "upper" -> Some(StrUpper(variables[a.from_var]))
           [] a.method = "lower" -> Some(StrLower(variables[a.from_var]))
           [] OTHER -> NoneV

\* r'\s+', the default of args.get('pattern')
DefaultSplitPattern ==
    [valid |-> TRUE, atoms |-> <<[cls |-> Spaces, plus |-> TRUE]>>, groups |-> <<>>]

ExtractAct(a, text, variables) ==
    IF a.from_var \notin DOMAIN variables THEN NoneV
    ELSE IF a.method = "split"
         THEN LET pattern == ArgOr(a.args, "pattern", DefaultSplitPattern)
                  index   == ArgOr(a.args, "index", 0)
              IN  IF ~pattern.valid THEN NoneV
                  ELSE Bind(ReSplit(pattern, variables[a.from_var]), LAMBDA parts :
                       IF 0 <= index /\ index < Len(parts)
                       THEN Some(parts[index + 1]) ELSE NoneV)
         ELSE NoneV

Act(a, text, variables) ==
    CASE a.type = "set"           -> SetAct(a, text, variables)
      [] a.type = "regex_extract" -> RegexExtractAct(a, text, variables)
      [] a.type = "derive"        -> DeriveAct(a, text, variables)
      [] a.type = "extract"       -> ExtractAct(a, text, variables)

\* ------------------------------------------------------------------------
\* Rule.apply
\* ------------------------------------------------------------------------
RECURSIVE CheckCriteria(_, _, _, _)
\* the criteria loop from criterion i on: NoneV when one fails, else
\* Some(all_captured_values)
CheckCriteria(criteria, i, text, all_captured_values) ==
    IF i > Len(criteria) THEN Some(all_captured_values)
    ELSE Bind(CriterionMatch(criteria[i], text), LAMBDA r :
         IF ~r.matches THEN NoneV
         ELSE Bind(DictUpdate(all_captured_values, r.captured), LAMBDA updated :
              CheckCriteria(criteria, i + 1, text, updated)))

\* variant: the extract actions counted with the derive actions
IsDerive_or_extract(a) == a.type \in {"derive", "extract"}

IsDerive(a) == a.type = "derive"

IsNotDerive(a) == a.type # "derive"

\* variant: phase 1 without the filter on the action type
NonDeriveActions_all(actions) == actions

NonDeriveActions(actions) == SelectSeq(actions, IsNotDerive)

DeriveActions(actions) == SelectSeq(actions, IsDerive)

\* variant: an action loop that keeps the value a variable already has
ActionStep_keep_existing(a, text, all_variables) ==
    Bind(Act(a, text, all_variables), LAMBDA result :
    IF IsRaised(result) THEN result
    ELSE IF IsSome(result) /\ a.variable \notin DOMAIN all_variables
         THEN Some(DictSet(all_variables, a.variable, result.val))
    ELSE Some(all_variables))

\* one iteration of an action loop: the variables after it, or the raise
ActionStep(a, text, all_variables) ==
    Bind(Act(a, text, all_variables), LAMBDA result :
    IF IsRaised(result) THEN result
    ELSE IF IsSome(result) THEN Some(DictSet(all_variables, a.variable, result.val))
    ELSE Some(all_variables))

RECURSIVE RunActions(_, _, _, _)
\* an action loop from action i on
RunActions(actions, i, text, all_variables) ==
    IF i > Len(actions) THEN Some(all_variables)
    ELSE Bind(ActionStep(actions[i], text, all_variables), LAMBDA r :
         IF IsRaised(r) THEN r ELSE RunActions(actions, i + 1, text, r.val))

RuleApply(rule, text) ==
    Bind(CheckCriteria(rule.criteria, 1, text, EmptyDict), LAMBDA captured :
    IF IsNone(captured) THEN NoneV
    ELSE Bind(RunActions(NonDeriveActions(rule.actions), 1, text, captured.val), LAMBDA phase1 :
         IF IsRaised(phase1) THEN phase1
         ELSE Bind(RunActions(DeriveActions(rule.actions), 1, text, phase1.val), LAMBDA phase2 :
              IF IsRaised(phase2) THEN phase2
              ELSE Some([rule_id          |-> rule.rule_id,
                         variables        |-> phase2.val,
                         rule_description |-> rule.description]))))

\* ------------------------------------------------------------------------
\* NominalProcessor: the pure part of each method
\* ------------------------------------------------------------------------
\* Python truthiness of a str value
Truthy(value) == value # <<>>

\* variant: the merge without the `key not in` test
MergeFirstWins_last_wins(extracted_vars, all_vars) ==
    [k \in (DOMAIN extracted_vars) \cup {x \in DOMAIN all_vars : Truthy(all_vars[x])} |->
        IF k \in DOMAIN all_vars /\ Truthy(all_vars[k]) THEN all_vars[k]
        ELSE extracted_vars[k]]

\* the merge loop of _apply_global_rules over one rule's variables
MergeFirstWins(extracted_vars, all_vars) ==
    [k \in (DOMAIN extracted_vars) \cup {x \in DOMAIN all_vars : Truthy(all_vars[x])} |->
        IF k \in DOMAIN extracted_vars THEN extracted_vars[k] ELSE all_vars[k]]

RECURSIVE ApplyGlobalRulesFrom(_, _, _, _)
\* the loop of _apply_global_rules from rule i on
ApplyGlobalRulesFrom(rules, i, text, extracted_vars) ==
    IF i > Len(rules) THEN Some(extracted_vars)
    ELSE Bind(RuleApply(rules[i], text), LAMBDA result :
         IF IsRaised(result) THEN result
         ELSE IF IsSome(result)
              THEN Bind(MergeFirstWins(extracted_vars, result.val.variables), LAMBDA merged :
                   ApplyGlobalRulesFrom(rules, i + 1, text, merged))
              ELSE ApplyGlobalRulesFrom(rules, i + 1, text, extracted_vars))

ApplyGlobalRules(rules, text) == ApplyGlobalRulesFrom(rules, 1, text, EmptyDict)

RECURSIVE ClassifyDocumentFrom(_, _, _)
\* the loop of _classify_document from rule i on: NoneV for (None, None),
\* else Some of the matching rule and its result
ClassifyDocumentFrom(rules, i, text) ==
    IF i > Len(rules) THEN NoneV
    ELSE Bind(RuleApply(rules[i], text), LAMBDA result :
         IF IsRaised(result) THEN result
         ELSE IF IsSome(result)
              THEN Some([matched_rule |-> rules[i], classification_result |-> result.val])
              ELSE ClassifyDocumentFrom(rules, i + 1, text))

\* variant: the rules are tried from the last one to the first
ClassifyDocument_last_match(rules, text) ==
    ClassifyDocumentFrom([i \in 1..Len(rules) |-> rules[Len(rules) + 1 - i]], 1, text)

ClassifyDocument(rules, text) == ClassifyDocumentFrom(rules, 1, text)

\* f"doc_{n}"
DefaultDocId(n) == [name |-> "doc", n |-> n]

\* a document id given by the caller
GivenDocId(name) == [name |-> name, n |-> 0]

TextPreviewLen == 200

\* text[:200] + "..." if len(text) > 200 else text
TextPreview(text) ==
    IF Len(text) > TextPreviewLen
    THEN SubSeq(text, 1, TextPreviewLen) \o <<".", ".", ".">>
    ELSE text

\* the conflicts list of process_document
Conflicts(global_variables, extracted_global_vars) ==
    {k \in DOMAIN extracted_global_vars :
        k \in DOMAIN global_variables /\ global_variables[k] # extracted_global_vars[k]}

\* variant: the update without the `key not in` test
MergeGlobals_overwrite(global_variables, extracted_global_vars) ==
    [k \in (DOMAIN global_variables) \cup (DOMAIN extracted_global_vars) |->
        IF k \in DOMAIN extracted_global_vars THEN extracted_global_vars[k]
        ELSE global_variables[k]]

\* variant: a document with a conflict merges nothing
MergeGlobals_skip_on_conflict(global_variables, extracted_global_vars) ==
    IF Conflicts(global_variables, extracted_global_vars) # {}
    THEN global_variables
    ELSE [k \in (DOMAIN global_variables) \cup (DOMAIN extracted_global_vars) |->
             IF k \in DOMAIN global_variables THEN global_variables[k]
             ELSE extracted_global_vars[k]]

\* the update of the batch-level global variables
MergeGlobals(global_variables, extracted_global_vars) ==
    [k \in (DOMAIN global_variables) \cup (DOMAIN extracted_global_vars) |->
        IF k \in DOMAIN global_variables THEN global_variables[k]
        ELSE extracted_global_vars[k]]

\* variant: the unmatched document is not recorded
LogUnmatched_skip(unmatched, error_entry) == unmatched

\* self.unmatched_documents.append(error_entry)
LogUnmatched(unmatched, error_entry) == Append(unmatched, error_entry)

\* the result dictionary with local_variables cut down to the variables the
\* matched rule declares as local
DocumentResult_declared_only(matched_rule, doc_id, extracted_global_vars, local_vars) ==
    [rule_id          |-> matched_rule.rule_id,
     document_id      |-> doc_id,
     global_variables |-> extracted_global_vars,
     local_variables  |->
         [k \in {v \in DOMAIN local_vars :
                    \E n \in 1..Len(matched_rule.local_variables) :
                        matched_rule.local_variables[n] = v} |-> local_vars[k]],
     rule_description |-> matched_rule.description]

\* the dictionary process_document returns for a matched document
DocumentResult(matched_rule, doc_id, extracted_global_vars, local_vars) ==
    [rule_id          |-> matched_rule.rule_id,
     document_id      |-> doc_id,
     global_variables |-> extracted_global_vars,
     local_variables  |-> local_vars,
     rule_description |-> matched_rule.description]

\* process_document as a function of the processor's state and its
\* arguments: what it returns (ret), the state it leaves, and the conflicts
\* it logs.
ProcessDocument(gv, unmatched, g_rules, f_rules, text, document_id, enforce_global) ==
    LET doc_id == IF IsSome(document_id) THEN document_id.val
                  ELSE DefaultDocId(Len(unmatched) + 1)
        same(r) == [ret |-> r, global_variables |-> gv,
                    unmatched_documents |-> unmatched, conflicts |-> {}]
    IN  Bind(ApplyGlobalRules(g_rules, text), LAMBDA extracted :
        IF IsRaised(extracted) THEN same(extracted)
        ELSE Bind(ClassifyDocument(f_rules, text), LAMBDA cls :
                 IF IsRaised(cls) THEN same(cls)
                 ELSE IF IsNone(cls)
                 THEN [ret |-> NoneV,
                       global_variables |-> gv,
                       unmatched_documents |->
                           LogUnmatched(unmatched,
                                  [document_id    |-> doc_id,
                                   text_preview   |-> TextPreview(text),
                                   extracted_vars |-> extracted.val]),
                       conflicts |-> {}]
                 ELSE [ret |-> Some(DocumentResult(cls.val.matched_rule, doc_id, extracted.val,
                                                   cls.val.classification_result.variables)),
                       global_variables |-> MergeGlobals(gv, extracted.val),
                       unmatched_documents |-> unmatched,
                       conflicts |-> IF enforce_global
                                     THEN Conflicts(gv, extracted.val) ELSE {}]))

\* ------------------------------------------------------------------------
\* Rules, as the parser builds them, and the documents of the model
\* ------------------------------------------------------------------------
Once(cls) == [cls |-> cls, plus |-> FALSE]

Many(cls) == [cls |-> cls, plus |-> TRUE]

Pattern(atoms, groups) == [valid |-> TRUE, atoms |-> atoms, groups |-> groups]

ContainsCriterion(value, case_sensitive) ==
    [type |-> "contains", value |-> value, case_sensitive |-> case_sensitive]

RegexCriterion(pattern, capture, variable) ==
    [type |-> "regex", pattern |-> pattern, capture |-> capture, variable |-> variable]

AllCriterion(sub_criteria) == [type |-> "all", sub_criteria |-> sub_criteria]

AnyCriterion(sub_criteria) == [type |-> "any", sub_criteria |-> sub_criteria]

SetAction(variable, value) == [type |-> "set", variable |-> variable, value |-> value]

RegexExtractAction(variable, pattern, group, from_text) ==
    [type |-> "regex_extract", variable |-> variable, pattern |-> pattern,
     group |-> group, from_text |-> from_text]

DeriveAction(variable, from_var, method, args) ==
    [type |-> "derive", variable |-> variable, from_var |-> from_var,
     method |-> method, args |-> args]

ExtractAction(variable, from_var, method, args) ==
    [type |-> "extract", variable |-> variable, from_var |-> from_var,
     method |-> method, args |-> args]

Rule(rule_id, global_variables, local_variables, criteria, actions) ==
    [rule_id |-> rule_id, description |-> rule_id,
     global_variables |-> global_variables, local_variables |-> local_variables,
     criteria |-> criteria, actions |-> actions]

\* global rule: any document; TIN is the first digit of the text
GlobalTin ==
    Rule("tin", <<"TIN">>, <<>>,
         <<RegexCriterion(Pattern(<<Once(Char)>>, <<>>), FALSE, NoneV)>>,
         <<RegexExtractAction("TIN", Pattern(<<Once(Digits)>>, <<>>), 0, TRUE)>>)

\* global rule: a document with a space; TIN is the digit after the first
\* " <digit>", NOTE is the empty string, ALT is "a"
GlobalAlt ==
    Rule("alt", <<"TIN", "NOTE", "ALT">>, <<>>,
         <<ContainsCriterion(<<" ">>, TRUE)>>,
         <<RegexExtractAction("TIN", Pattern(<<Once(Spaces), Once(Digits)>>, <<<<2, 2>>>>),
                              1, TRUE),
           SetAction("NOTE", Some(<<>>)),
           SetAction("ALT", Some(<<"a">>))>>)

\* form rule: "f" in any case; TIN_LAST is derived from the TIN that a later
\* action extracts
FormW2 ==
    Rule("W2", <<"TIN">>, <<"FORM_NAME">>,
         <<ContainsCriterion(<<"F">>, FALSE)>>,
         <<DeriveAction("TIN_LAST", "TIN", "slice", [start |-> Some(-1)]),
           SetAction("FORM_NAME", Some(<<"W", "2">>)),
           RegexExtractAction("TIN", Pattern(<<Many(Digits)>>, <<>>), 0, TRUE)>>)

\* form rule: a digit anywhere, captured into TIN
Form1099 ==
    Rule("1099", <<"TIN">>, <<"FORM_NAME">>,
         <<RegexCriterion(Pattern(<<Once(Digits)>>, <<>>), TRUE, Some("TIN"))>>,
         <<SetAction("FORM_NAME", Some(<<"1", "0", "9", "9">>))>>)

\* form rule: an upper-case "F" followed somewhere by a digit, or "FF"
FormUpper ==
    Rule("UP", <<>>, <<>>,
         <<AnyCriterion(<<AllCriterion(<<ContainsCriterion(<<"F">>, TRUE),
                       RegexCriterion(Pattern(<<Once(Digits)>>, <<>>), FALSE, NoneV)>>),
                 ContainsCriterion(<<"F", "F">>, TRUE)>>)>>,
         <<SetAction("FORM_NAME", Some(<<"U", "P">>))>>)

GlobalRuleLibrary == {GlobalTin, GlobalAlt}

\* global rule: any document; TIN is set to the empty string
GlobalBlank ==
    Rule("blank", <<"TIN">>, <<>>,
         <<>>,
         <<SetAction("TIN", Some(<<>>))>>)

\* the global rules of the study of _apply_global_rules
GlobalRulePool == GlobalRuleLibrary \cup {GlobalBlank}

FormRuleLibrary == {FormW2, Form1099, FormUpper}

Documents == {<<"f", "1">>, <<"F", "2">>, <<"1", " ", "2">>}

DocIds == {"A"}

\* an item of the documents list of process_batch: a text, or (doc_id, text)
BatchItems ==
    {[is_tuple |-> FALSE, doc_id |-> "", text |-> t] : t \in Documents}
    \cup {[is_tuple |-> TRUE, doc_id |-> d, text |-> <<"F", "2">>] : d \in DocIds}

SeqsUpTo(S, n) == UNION {[1..k -> S] : k \in 0..n}

InSeq(x, seq) == \E i \in 1..Len(seq) : seq[i] = x

\* ------------------------------------------------------------------------
\* The processor as a state machine
\* ------------------------------------------------------------------------
VARIABLES
    global_rules,          \* self.global_rules
    form_rules,            \* self.form_rules
    global_variables,      \* self.global_variables
    unmatched_documents,   \* self.unmatched_documents
    pc,                    \* "idle", or "batch" inside process_batch
    batch,                 \* the frame of the running process_batch (dirty: whether
                           \* the processor held anything when it was called)
    ret,                   \* what the last call returned
    call,                  \* the last call: its name and arguments
    apply,                 \* the frame of a Rule.apply call followed step by step
    frame                  \* the frame of another method followed step by step

vars == <<global_rules, form_rules, global_variables, unmatched_documents,
          pc, batch, ret, call, apply, frame>>

processor_vars == <<global_rules, form_rules, global_variables, unmatched_documents,
                    pc, batch, ret, call, frame>>

\* what a method followed in frame leaves alone, but for the rule lists
idle_vars == <<global_variables, unmatched_documents, pc, batch, ret, call, apply>>

NoBatch == [documents |-> <<>>, enforce_global |-> FALSE, results |-> <<>>, dirty |-> FALSE]

Call(op, text, document_id, enforce_global, documents, dirty) ==
    [op |-> op, text |-> text, document_id |-> document_id,
     enforce_global |-> enforce_global, documents |-> documents, dirty |-> dirty]

\* whether the processor holds anything a reset has to clear
Dirty == DOMAIN global_variables # {} \/ Len(unmatched_documents) > 0

NoApply == [pc |-> "none"]

NoFrame == [pc |-> "none"]

\* NominalProcessor() with no rules_dir
InitProcessor ==
    /\ global_rules = <<>>
    /\ form_rules = <<>>
    /\ global_variables = EmptyDict
    /\ unmatched_documents = <<>>
    /\ pc = "idle"
    /\ batch = NoBatch
    /\ ret = NoneV
    /\ call = Call("init", <<>>, NoneV, FALSE, <<>>, FALSE)

Init == InitProcessor /\ apply = NoApply /\ frame = NoFrame

\* load_rule(rule_path, rule_type), while the processor is being set up
LoadRule(rule, rule_type) ==
    /\ pc = "idle"
    /\ call.op \in {"init", "load_rule"}
    /\ IF rule_type = "global"
       THEN /\ Len(global_rules) < MaxRules
            /\ ~InSeq(rule, global_rules)
            /\ global_rules' = Append(global_rules, rule)
            /\ UNCHANGED form_rules
       ELSE /\ Len(form_rules) < MaxRules
            /\ ~InSeq(rule, form_rules)
            /\ form_rules' = Append(form_rules, rule)
            /\ UNCHANGED global_rules
    /\ ret' = NoneV
    /\ call' = Call("load_rule", <<>>, NoneV, FALSE, <<>>, FALSE)
    /\ UNCHANGED <<global_variables, unmatched_documents, pc, batch, apply, frame>>

\* variant: the extracted global variables are merged for an unmatched
\* document too
ProcessDocumentCall_merge_unmatched(text, document_id, enforce_global) ==
    /\ pc = "idle"
    /\ Len(unmatched_documents) < MaxUnmatched
    /\ \E out \in {ProcessDocument(global_variables, unmatched_documents,
                                    global_rules, form_rules,
                                    text, document_id, enforce_global)} :
           /\ global_variables' =
                  IF IsNone(out.ret)
                  THEN MergeGlobals(global_variables,
                           out.unmatched_documents[Len(out.unmatched_documents)].extracted_vars)
                  ELSE out.global_variables
           /\ unmatched_documents' = out.unmatched_documents
           /\ ret' = out.ret
    /\ call' = Call("process_document", text, document_id, enforce_global, <<>>, Dirty)
    /\ UNCHANGED <<global_rules, form_rules, pc, batch, apply, frame>>

\* variant: with enforce_global, a document whose extracted values conflict
\* with the held ones is skipped as if it were unmatched
ProcessDocumentCall_skip_conflicting(text, document_id, enforce_global) ==
    /\ pc = "idle"
    /\ Len(unmatched_documents) < MaxUnmatched
    /\ \E out \in {ProcessDocument(global_variables, unmatched_documents,
                                    global_rules, form_rules,
                                    text, document_id, enforce_global)} :
           IF out.conflicts # {}
           THEN /\ ret' = NoneV
                /\ UNCHANGED <<global_variables, unmatched_documents>>
           ELSE /\ global_variables' = out.global_variables
                /\ unmatched_documents' = out.unmatched_documents
                /\ ret' = out.ret
    /\ call' = Call("process_document", text, document_id, enforce_global, <<>>, Dirty)
    /\ UNCHANGED <<global_rules, form_rules, pc, batch, apply, frame>>

\* process_document(text, document_id, enforce_global), called directly
ProcessDocumentCall(text, document_id, enforce_global) ==
    /\ pc = "idle"
    /\ Len(unmatched_documents) < MaxUnmatched
    /\ \E out \in {ProcessDocument(global_variables, unmatched_documents,
                                    global_rules, form_rules,
                                    text, document_id, enforce_global)} :
           /\ global_variables' = out.global_variables
           /\ unmatched_documents' = out.unmatched_documents
           /\ ret' = out.ret
    /\ call' = Call("process_document", text, document_id, enforce_global, <<>>, Dirty)
    /\ UNCHANGED <<global_rules, form_rules, pc, batch, apply, frame>>

\* reset_global_variables()
ResetGlobalVariables ==
    /\ pc = "idle"
    /\ global_variables' = EmptyDict
    /\ ret' = NoneV
    /\ call' = Call("reset_global_variables", <<>>, NoneV, FALSE, <<>>, Dirty)
    /\ UNCHANGED <<global_rules, form_rules, unmatched_documents, pc, batch, apply, frame>>

\* variant: process_batch without the reset of global_variables
BatchStart_no_reset(documents, enforce_global) ==
    /\ pc = "idle"
    /\ unmatched_documents' = <<>>
    /\ pc' = "batch"
    /\ batch' = [documents |-> documents, enforce_global |-> enforce_global,
                 results |-> <<>>, dirty |-> Dirty]
    /\ ret' = NoneV
    /\ call' = Call("process_batch", <<>>, NoneV, enforce_global, documents, Dirty)
    /\ UNCHANGED <<global_rules, form_rules, global_variables, apply, frame>>

\* process_batch(documents, enforce_global): the reset and results = []
BatchStart(documents, enforce_global) ==
    /\ pc = "idle"
    /\ global_variables' = EmptyDict
    /\ unmatched_documents' = <<>>
    /\ pc' = "batch"
    /\ batch' = [documents |-> documents, enforce_global |-> enforce_global,
                 results |-> <<>>, dirty |-> Dirty]
    /\ ret' = NoneV
    /\ call' = Call("process_batch", <<>>, NoneV, enforce_global, documents, Dirty)
    /\ UNCHANGED <<global_rules, form_rules, apply, frame>>

\* variant: the documents counted from 0
ItemDocId_from_zero(item, i) ==
    IF item.is_tuple THEN GivenDocId(item.doc_id) ELSE DefaultDocId(i - 1)

\* the document id of item i of a documents list
ItemDocId(item, i) == IF item.is_tuple THEN GivenDocId(item.doc_id) ELSE DefaultDocId(i)

\* process_batch: one iteration of the loop over documents
BatchStep ==
    /\ pc = "batch"
    /\ Len(batch.results) < Len(batch.documents)
    /\ \E i \in {Len(batch.results) + 1} :
       \E item \in {batch.documents[i]} :
       \E out \in {ProcessDocument(global_variables, unmatched_documents,
                                    global_rules, form_rules,
                                    item.text, Some(ItemDocId(item, i)),
                                    batch.enforce_global)} :
           /\ global_variables' = out.global_variables
           /\ unmatched_documents' = out.unmatched_documents
           /\ ret' = out.ret
           /\ call' = Call("process_document", item.text, Some(ItemDocId(item, i)),
                           batch.enforce_global, <<>>, Dirty)
           /\ IF IsRaised(out.ret)
              THEN pc' = "idle" /\ batch' = NoBatch
              ELSE pc' = "batch" /\ batch' = [batch EXCEPT !.results = Append(@, out.ret)]
    /\ UNCHANGED <<global_rules, form_rules, apply, frame>>

\* process_batch: the summary after the loop, and return results
BatchReturn ==
    /\ pc = "batch"
    /\ Len(batch.results) = Len(batch.documents)
    /\ pc' = "idle"
    /\ ret' = Some(batch.results)
    /\ call' = Call("process_batch", <<>>, NoneV, batch.enforce_global,
                    batch.documents, batch.dirty)
    /\ batch' = NoBatch
    /\ UNCHANGED <<global_rules, form_rules, global_variables, unmatched_documents, apply, frame>>

Next ==
    \/ \E rule \in GlobalRuleLibrary : LoadRule(rule, "global")
    \/ \E rule \in FormRuleLibrary : LoadRule(rule, "form")
    \/ \E text \in Documents, document_id \in {NoneV}, enforce_global \in BOOLEAN :
          ProcessDocumentCall(text, document_id, enforce_global)
    \/ ResetGlobalVariables
    \/ \E documents \in SeqsUpTo(BatchItems, MaxBatch), enforce_global \in BOOLEAN :
          BatchStart(documents, enforce_global)
    \/ BatchStep
    \/ BatchReturn

Spec == Init /\ [][Next]_vars

\* ------------------------------------------------------------------------
\* Rule.apply followed step by step: one rule applied to one text
\* ------------------------------------------------------------------------
Word == {"f", "F"} \cup Digits

\* the actions a rule of SpecApply is built from
ApplyActionPool ==
    { RegexExtractAction("TIN", Pattern(<<Many(Word)>>, <<>>), 0, TRUE),
      ExtractAction("HEAD", "TIN", "split",
                    [pattern |-> Pattern(<<Once({"2"})>>, <<>>), index |-> 0]),
      SetAction("TIN_LAST", Some(<<"X">>)),
      DeriveAction("TIN_LAST", "TIN", "slice", [start |-> Some(-1)]),
      DeriveAction("SHOUT", "TIN_LAST", "upper", <<>>),
      DeriveAction("RAW", "TIN", "lower", <<>>) }

\* the criteria lists a rule of SpecApply is built from: the first matches
\* any text that has a character and captures the whole text as RAW, the
\* second asks for an "f" and captures the first word as RAW, the third
\* captures the first digit as NUM, asks for an "f" and captures the first
\* word as RAW
ApplyCriteriaPool ==
    { <<RegexCriterion(Pattern(<<Many(Char)>>, <<>>), TRUE, Some("RAW"))>>,
      <<ContainsCriterion(<<"f">>, TRUE),
        RegexCriterion(Pattern(<<Many(Word)>>, <<>>), TRUE, Some("RAW"))>>,
      <<RegexCriterion(Pattern(<<Once(Digits)>>, <<>>), TRUE, Some("NUM")),
        ContainsCriterion(<<"f">>, TRUE),
        RegexCriterion(Pattern(<<Many(Word)>>, <<>>), TRUE, Some("RAW"))>> }

ApplyTexts == {<<"1", "f">>, <<"F", "2", " ", "1">>, <<" ">>}

\* the actions of a rule, each with its place in the declared list
Placed(actions) == [i \in 1..Len(actions) |-> ("place" :> i) @@ actions[i]]

ApplyRules ==
    { Rule("R", <<>>, <<>>, criteria, Placed(actions)) :
        criteria \in ApplyCriteriaPool, actions \in SeqsUpTo(ApplyActionPool, MaxActions) }

\* the frame of apply(text): where it is (pc), the phase's actions still to
\* run (queue), the variables so far, and a log of the actions run, each
\* with the variables it was given and what it returned
ApplyFrame(rule, text, at, queue, all_variables, log, result) ==
    [pc |-> at, rule |-> rule, text |-> text, queue |-> queue,
     all_variables |-> all_variables, log |-> log, result |-> result]

InitApply ==
    /\ InitProcessor
    /\ frame = NoFrame
    /\ \E rule \in ApplyRules, text \in ApplyTexts :
           apply = ApplyFrame(rule, text, "criteria", <<>>, EmptyDict, <<>>, NoneV)

\* variant: the variables are not seeded with the captured values
ApplyCheckCriteria_no_seed ==
    /\ apply.pc = "criteria"
    /\ \E captured \in {CheckCriteria(apply.rule.criteria, 1, apply.text, EmptyDict)} :
           IF IsNone(captured)
           THEN apply' = [apply EXCEPT !.pc = "returned", !.result = NoneV]
           ELSE apply' = [apply EXCEPT !.pc = "phase1",
                                       !.queue = NonDeriveActions(apply.rule.actions)]
    /\ UNCHANGED processor_vars

\* the criteria loop, and the split of the actions into the two phases
ApplyCheckCriteria ==
    /\ apply.pc = "criteria"
    /\ \E captured \in {CheckCriteria(apply.rule.criteria, 1, apply.text, EmptyDict)} :
           IF IsNone(captured)
           THEN apply' = [apply EXCEPT !.pc = "returned", !.result = NoneV]
           ELSE apply' = [apply EXCEPT !.pc = "phase1",
                                       !.all_variables = captured.val,
                                       !.queue = NonDeriveActions(apply.rule.actions)]
    /\ UNCHANGED processor_vars

\* one iteration of an action loop of apply
ApplyLoopBody ==
    \E r \in {ActionStep(Head(apply.queue), apply.text, apply.all_variables)} :
        IF IsRaised(r)
        THEN apply' = [apply EXCEPT !.pc = "returned", !.result = r]
        ELSE apply' = [apply EXCEPT
                 !.queue = Tail(@),
                 !.all_variables = r.val,
                 !.log = Append(@, [action |-> Head(apply.queue),
                                    given  |-> apply.all_variables,
                                    phase  |-> apply.pc])]

\* phase 1: one iteration of the loop over non_derive_actions
ApplyExtract ==
    /\ apply.pc = "phase1"
    /\ apply.queue # <<>>
    /\ ApplyLoopBody
    /\ UNCHANGED processor_vars

\* the end of phase 1
ApplyStartDerive ==
    /\ apply.pc = "phase1"
    /\ apply.queue = <<>>
    /\ apply' = [apply EXCEPT !.pc = "phase2", !.queue = DeriveActions(apply.rule.actions)]
    /\ UNCHANGED processor_vars

\* phase 2: one iteration of the loop over derive_actions
ApplyDerive ==
    /\ apply.pc = "phase2"
    /\ apply.queue # <<>>
    /\ ApplyLoopBody
    /\ UNCHANGED processor_vars

\* the end of phase 2: return the result
ApplyReturn ==
    /\ apply.pc = "phase2"
    /\ apply.queue = <<>>
    /\ apply' = [apply EXCEPT
           !.pc = "returned",
           !.result = Some([rule_id          |-> apply.rule.rule_id,
                            variables        |-> apply.all_variables,
                            rule_description |-> apply.rule.description])]
    /\ UNCHANGED processor_vars

NextApply ==
    \/ ApplyCheckCriteria
    \/ ApplyExtract
    \/ ApplyStartDerive
    \/ ApplyDerive
    \/ ApplyReturn

SpecApply == InitApply /\ [][NextApply]_vars

\* the step-by-step apply returns what RuleApply computes
ApplyAgrees ==
    apply.pc = "returned" => apply.result = RuleApply(apply.rule, apply.text)

\* ------------------------------------------------------------------------
\* Properties of the processor (checked under Spec)
\* ------------------------------------------------------------------------
\* the last call was process_document and it returned
Processed == call.op = "process_document" /\ ~IsRaised(ret)

\* the places in form_rules of the rules whose apply() succeeds on text
Matching(text) == {i \in 1..Len(form_rules) : IsSome(RuleApply(form_rules[i], text))}

\* what the global rules extract from text
Extracted(text) == ApplyGlobalRules(global_rules, text).val

\* C1: process_document returns the result of the earliest rule of form_rules
\* whose apply() succeeds, and None only when no form rule matches.
FirstMatchWins ==
    Processed =>
        IF Matching(call.text) = {} THEN IsNone(ret)
        ELSE /\ IsSome(ret)
             /\ \E first \in {Min(Matching(call.text))} :
                \E r1 \in {RuleApply(form_rules[first], call.text).val} :
                    /\ ret.val.rule_id = r1.rule_id
                    /\ ret.val.local_variables = r1.variables
                    /\ ret.val.rule_description = r1.rule_description

\* C1 witness: two loaded rules match the document with different results,
\* and the first one's result was returned
FirstMatchWinsWitness ==
    /\ Processed
    /\ IsSome(ret)
    /\ Len(form_rules) = 2
    /\ Matching(call.text) = {1, 2}
    /\ RuleApply(form_rules[1], call.text).val.variables
           # RuleApply(form_rules[2], call.text).val.variables
    /\ ret.val.rule_id = form_rules[1].rule_id
    /\ ret.val.local_variables = RuleApply(form_rules[1], call.text).val.variables

\* C2: a process_document call never changes the value of a key that is
\* already in global_variables.
GlobalsNeverOverwritten ==
    [][call'.op = "process_document" =>
          \A k \in DOMAIN global_variables :
              k \in DOMAIN global_variables' /\ global_variables'[k] = global_variables[k]]_vars

\* C2 witness: a matched document extracted a value for a key that differs
\* from the one global_variables holds
GlobalsNeverOverwrittenWitness ==
    /\ Processed
    /\ IsSome(ret)
    /\ \E k \in DOMAIN ret.val.global_variables :
           k \in DOMAIN global_variables /\ global_variables[k] # ret.val.global_variables[k]

\* process_batch has just returned its results
BatchReturned == call.op = "process_batch" /\ pc = "idle" /\ IsSome(ret)

\* the places in documents of the items whose global rules give a value for k
Producing(documents, k) ==
    {i \in 1..Len(documents) : k \in DOMAIN Extracted(documents[i].text)}

\* the places in documents of the items that some form rule matches
Matched(documents) == {i \in 1..Len(documents) : Matching(documents[i].text) # {}}

\* C3 as claimed: after process_batch every key of global_variables holds the
\* value from the earliest document whose global rules produced one.
FirstDocumentWins ==
    BatchReturned =>
        \A k \in DOMAIN global_variables :
            /\ Producing(call.documents, k) # {}
            /\ global_variables[k] =
                   Extracted(call.documents[Min(Producing(call.documents, k))].text)[k]

\* C3 amended: after process_batch the keys of global_variables are the keys
\* produced for the matched documents, each with the value from the earliest
\* matched document whose global rules produced one.
FirstMatchedDocumentWins ==
    BatchReturned =>
        /\ DOMAIN global_variables =
               UNION {DOMAIN Extracted(call.documents[i].text) : i \in Matched(call.documents)}
        /\ \A k \in DOMAIN global_variables :
               \E first \in {Min(Producing(call.documents, k) \cap Matched(call.documents))} :
                   global_variables[k] = Extracted(call.documents[first].text)[k]

\* C3 witness: two matched documents of a batch produced different values
\* for the same key, and the first one's value is stored
FirstMatchedDocumentWinsWitness ==
    /\ BatchReturned
    /\ \E k \in DOMAIN global_variables, i, j \in Matched(call.documents) :
           /\ i < j
           /\ k \in DOMAIN Extracted(call.documents[i].text)
           /\ k \in DOMAIN Extracted(call.documents[j].text)
           /\ Extracted(call.documents[i].text)[k] # Extracted(call.documents[j].text)[k]
           /\ global_variables[k] = Extracted(call.documents[i].text)[k]
           /\ Producing(call.documents, k) \cap Matched(call.documents) = {i, j}

\* the variables of the map raw whose names are in the list declared
Restrict(raw, declared) ==
    [k \in {x \in DOMAIN raw : InSeq(x, declared)} |-> raw[k]]

\* the scope list of a rule, empty when the rule has no such list
Declared(rule, scope) == IF scope \in DOMAIN rule THEN rule[scope] ELSE <<>>

\* C6 as claimed: the result of a matched document partitions the matched
\* rule's raw variable map by the rule's declared global, local and derived
\* lists, and an undeclared variable is in none of the three.
ScopePartition ==
    (Processed /\ IsSome(ret)) =>
        \E rule \in {form_rules[Min(Matching(call.text))]} :
        \E raw \in {RuleApply(rule, call.text).val.variables} :
            /\ {"global_variables", "local_variables", "derived_variables"}
                   \subseteq DOMAIN ret.val
            /\ ret.val.global_variables = Restrict(raw, Declared(rule, "global_variables"))
            /\ ret.val.local_variables = Restrict(raw, Declared(rule, "local_variables"))
            /\ ret.val.derived_variables = Restrict(raw, Declared(rule, "derived_variables"))

\* the number of None entries of a results list
NoneCount(results) == Cardinality({i \in 1..Len(results) : IsNone(results[i])})

\* C7: a process_document call on a document no form rule matches returns
\* None and appends exactly one entry, for that document, to
\* unmatched_documents; on a matched document it returns a result and leaves
\* unmatched_documents alone; so after process_batch the None results are as
\* many as the unmatched documents, and the rest are the matched ones.
UnmatchedLoggedOnce ==
    /\ [][(call'.op = "process_document" /\ ~IsRaised(ret')) =>
             IF Matching(call'.text) = {}
             THEN /\ IsNone(ret')
                  /\ Len(unmatched_documents') = Len(unmatched_documents) + 1
                  /\ SubSeq(unmatched_documents', 1, Len(unmatched_documents))
                         = unmatched_documents
                  /\ unmatched_documents'[Len(unmatched_documents')].text_preview
                         = call'.text
             ELSE /\ IsSome(ret')
                  /\ unmatched_documents' = unmatched_documents]_vars
    /\ [](BatchReturned =>
             /\ NoneCount(ret.val) = Len(unmatched_documents)
             /\ (Len(ret.val) - NoneCount(ret.val)) + Len(unmatched_documents)
                    = Len(call.documents))

\* C7 witness: a batch of a matched and an unmatched document has returned
UnmatchedLoggedOnceWitness ==
    /\ BatchReturned
    /\ Len(call.documents) = 2
    /\ IsSome(ret.val[1])
    /\ IsNone(ret.val[2])
    /\ Len(unmatched_documents) = 1
    /\ unmatched_documents[1].text_preview = call.documents[2].text

\* C8: process_batch takes the documents one at a time in input order, and
\* returns one entry per document at the document's place: None when no form
\* rule matches it, else the result of its first matching rule under the
\* document's id.
BatchResultsInOrder ==
    /\ [][(pc = "batch" /\ pc' = "batch") =>
             /\ Len(batch'.results) = Len(batch.results) + 1
             /\ SubSeq(batch'.results, 1, Len(batch.results)) = batch.results
             /\ call'.text = batch.documents[Len(batch'.results)].text
             /\ batch'.results[Len(batch'.results)] = ret']_vars
    /\ [](BatchReturned =>
             /\ Len(ret.val) = Len(call.documents)
             /\ \A i \in 1..Len(call.documents) :
                    IF Matching(call.documents[i].text) = {} THEN IsNone(ret.val[i])
                    ELSE /\ IsSome(ret.val[i])
                         /\ ret.val[i].val.rule_id =
                                form_rules[Min(Matching(call.documents[i].text))].rule_id
                         /\ ret.val[i].val.global_variables
                                = Extracted(call.documents[i].text)
                         /\ ret.val[i].val.document_id =
                                IF call.documents[i].is_tuple
                                THEN [name |-> call.documents[i].doc_id, n |-> 0]
                                ELSE [name |-> "doc", n |-> i])

\* C8 witness: an unmatched document came first and the document after it
\* was still processed and matched
BatchResultsInOrderWitness ==
    /\ BatchReturned
    /\ Len(call.documents) = 2
    /\ ~call.documents[2].is_tuple
    /\ IsNone(ret.val[1])
    /\ IsSome(ret.val[2])
    /\ ret.val[2].val.document_id = [name |-> "doc", n |-> 2]

\* C9: process_batch empties global_variables and unmatched_documents before
\* it processes a document, so during the batch unmatched_documents holds
\* this batch's unmatched documents only, and process_batch([]) returns []
\* with both empty.
BatchStartsClean ==
    /\ [][(pc = "idle" /\ pc' = "batch") =>
             /\ DOMAIN global_variables' = {}
             /\ unmatched_documents' = <<>>
             /\ batch'.results = <<>>]_vars
    /\ [](pc = "batch" => Len(unmatched_documents) = NoneCount(batch.results))
    /\ []((BatchReturned /\ call.documents = <<>>) =>
             /\ ret.val = <<>>
             /\ DOMAIN global_variables = {}
             /\ unmatched_documents = <<>>)

\* C9 witness: process_batch([]) has returned, called on a processor that
\* held global variables or unmatched documents
BatchStartsCleanWitness ==
    /\ BatchReturned
    /\ call.documents = <<>>
    /\ call.dirty
    /\ ret.val = <<>>
    /\ DOMAIN global_variables = {}

\* C10 as claimed: in a batch processed with enforce_global=True any two
\* matched results agree on every global variable both report.
BatchResultsAgree ==
    (BatchReturned /\ call.enforce_global) =>
        \A i, j \in 1..Len(ret.val) :
            (IsSome(ret.val[i]) /\ IsSome(ret.val[j])) =>
                \A k \in (DOMAIN ret.val[i].val.global_variables)
                             \cap (DOMAIN ret.val[j].val.global_variables) :
                    ret.val[i].val.global_variables[k] = ret.val[j].val.global_variables[k]

\* C11: a process_document call with enforce_global=True on a matched
\* document returns its result without raising, whether or not a value it
\* extracted differs from the one global_variables holds; every key
\* global_variables held keeps its value, and every key the document
\* extracted that was not held is merged with the document's value.
ConflictIsNotFatal ==
    [][(call'.op = "process_document" /\ call'.enforce_global
            /\ Matching(call'.text) # {}) =>
          /\ IsSome(ret')
          /\ DOMAIN global_variables' =
                 (DOMAIN global_variables) \cup (DOMAIN Extracted(call'.text))
          /\ \A k \in DOMAIN global_variables :
                 global_variables'[k] = global_variables[k]
          /\ \A k \in (DOMAIN Extracted(call'.text)) \ (DOMAIN global_variables) :
                 global_variables'[k] = Extracted(call'.text)[k]]_vars

\* C11 witness: the second document of a batch with enforce_global=True
\* extracted another TIN than the first and a key the first had not; the
\* first TIN is kept and the new key is merged
ConflictIsNotFatalWitness ==
    /\ BatchReturned
    /\ call.enforce_global
    /\ Len(ret.val) = 2
    /\ IsSome(ret.val[1])
    /\ IsSome(ret.val[2])
    /\ "TIN" \in DOMAIN ret.val[1].val.global_variables
    /\ "ALT" \notin DOMAIN ret.val[1].val.global_variables
    /\ {"TIN", "ALT"} \subseteq DOMAIN ret.val[2].val.global_variables
    /\ ret.val[1].val.global_variables["TIN"] # ret.val[2].val.global_variables["TIN"]
    /\ global_variables["TIN"] = ret.val[1].val.global_variables["TIN"]
    /\ global_variables["ALT"] = ret.val[2].val.global_variables["ALT"]

\* ------------------------------------------------------------------------
\* _apply_global_rules followed step by step: the global rules of a
\* processor applied to one text
\* ------------------------------------------------------------------------
\* the frame of _apply_global_rules(text): the place i of the next rule, the
\* extracted_vars so far, and the result once returned
GlobalFrame(text, at, i, extracted_vars, result) ==
    [pc |-> at, text |-> text, i |-> i, extracted_vars |-> extracted_vars,
     result |-> result]

InitGlobal ==
    /\ global_rules \in SeqsUpTo(GlobalRulePool, MaxRules)
    /\ form_rules = <<>>
    /\ global_variables = EmptyDict
    /\ unmatched_documents = <<>>
    /\ pc = "idle"
    /\ batch = NoBatch
    /\ ret = NoneV
    /\ call = Call("init", <<>>, NoneV, FALSE, <<>>, FALSE)
    /\ apply = NoApply
    /\ \E text \in Documents : frame = GlobalFrame(text, "rules", 1, EmptyDict, NoneV)

\* one iteration of the loop over self.global_rules
GlobalRuleStep ==
    /\ frame.pc = "rules"
    /\ frame.i <= Len(global_rules)
    /\ \E result \in {RuleApply(global_rules[frame.i], frame.text)} :
           IF IsRaised(result)
           THEN frame' = [frame EXCEPT !.pc = "returned", !.result = result]
           ELSE frame' = [frame EXCEPT
                    !.i = @ + 1,
                    !.extracted_vars =
                        IF IsSome(result) THEN MergeFirstWins(@, result.val.variables)
                        ELSE @]
    /\ UNCHANGED <<global_rules, form_rules, idle_vars>>

\* return extracted_vars
GlobalRulesReturn ==
    /\ frame.pc = "rules"
    /\ frame.i > Len(global_rules)
    /\ frame' = [frame EXCEPT !.pc = "returned", !.result = Some(frame.extracted_vars)]
    /\ UNCHANGED <<global_rules, form_rules, idle_vars>>

NextGlobal ==
    \/ GlobalRuleStep
    \/ GlobalRulesReturn

SpecGlobal == InitGlobal /\ [][NextGlobal]_vars

\* the step-by-step loop returns what ApplyGlobalRules computes
GlobalAgrees ==
    frame.pc = "returned" => frame.result = ApplyGlobalRules(global_rules, frame.text)

\* the variables global rule i produces for the text of the frame
Produced(i) ==
    IF IsSome(RuleApply(global_rules[i], frame.text))
    THEN RuleApply(global_rules[i], frame.text).val.variables
    ELSE EmptyDict

\* the places of the global rules that produce the name k, with any value
ProducersOf(k) == {i \in 1..Len(global_rules) : k \in DOMAIN Produced(i)}

\* the places of the global rules that produce a non-empty value for k
NonEmptyProducersOf(k) == {i \in ProducersOf(k) : Truthy(Produced(i)[k])}

\* C12 as claimed: every extracted global variable holds the value of the
\* earliest global rule that produces its name.
FirstGlobalRuleWins ==
    (frame.pc = "returned" /\ IsSome(frame.result)) =>
        \A k \in DOMAIN frame.result.val :
            frame.result.val[k] = Produced(Min(ProducersOf(k)))[k]

\* C12: the extracted global variables are the names some global rule
\* gives a non-empty value, each with the value of the earliest global rule
\* that gives it a non-empty value, and no iteration of the loop changes a
\* key that is already extracted.
FirstNonEmptyGlobalRuleWins ==
    /\ []((frame.pc = "returned" /\ IsSome(frame.result)) =>
             /\ DOMAIN frame.result.val =
                    {k \in UNION {DOMAIN Produced(i) : i \in 1..Len(global_rules)} :
                        NonEmptyProducersOf(k) # {}}
             /\ \A k \in DOMAIN frame.result.val :
                    frame.result.val[k] = Produced(Min(NonEmptyProducersOf(k)))[k])
    /\ [][frame.pc = "rules" =>
             \A k \in DOMAIN frame.extracted_vars :
                 /\ k \in DOMAIN frame'.extracted_vars
                 /\ frame'.extracted_vars[k] = frame.extracted_vars[k]]_vars

\* C12 witness: two global rules gave two different non-empty TINs for one
\* document and the first rule's TIN was returned
FirstNonEmptyGlobalRuleWinsWitness ==
    /\ frame.pc = "returned"
    /\ IsSome(frame.result)
    /\ Len(global_rules) = 2
    /\ NonEmptyProducersOf("TIN") = {1, 2}
    /\ Produced(1)["TIN"] # Produced(2)["TIN"]
    /\ frame.result.val["TIN"] = Produced(1)["TIN"]

\* ------------------------------------------------------------------------
\* Properties of Rule.apply (checked under SpecApply)
\* ------------------------------------------------------------------------
\* whether entry j of the log produced a value
Wrote(j) == IsSome(Act(apply.log[j].action, apply.text, apply.log[j].given))

\* C4: every non-derive action runs before any derive action, declared order
\* is kept inside each phase, each action is given the variables as the
\* action before it left them, and so a derive sees every value phase 1
\* wrote, wherever the derive is declared.
TwoPhaseOrder ==
    /\ \A j, k \in 1..Len(apply.log) :
           j < k =>
               /\ IsDerive(apply.log[j].action) => IsDerive(apply.log[k].action)
               /\ IsDerive(apply.log[j].action) = IsDerive(apply.log[k].action)
                      => apply.log[j].action.place < apply.log[k].action.place
               /\ Wrote(j) => apply.log[j].action.variable \in DOMAIN apply.log[k].given
    /\ \A j \in 1..Len(apply.log) :
           /\ apply.log[j].phase = IF IsDerive(apply.log[j].action) THEN "phase2" ELSE "phase1"
           /\ j > 1 => apply.log[j].given =
                           ActionStep(apply.log[j - 1].action, apply.text,
                                      apply.log[j - 1].given).val
    /\ (apply.pc = "returned" /\ IsSome(apply.result)) =>
           {apply.log[j].action.place : j \in 1..Len(apply.log)}
               = 1..Len(apply.rule.actions)

\* C4 witness: a derive declared first got the value of an action declared
\* after it, and a later derive got the first derive's output
TwoPhaseOrderWitness ==
    /\ apply.pc = "returned"
    /\ IsSome(apply.result)
    /\ Len(apply.rule.actions) = 3
    /\ apply.rule.actions[1].type = "derive"
    /\ apply.rule.actions[1].variable = "TIN_LAST"
    /\ apply.rule.actions[2].type = "derive"
    /\ apply.rule.actions[2].variable = "SHOUT"
    /\ apply.rule.actions[3].type = "regex_extract"
    /\ apply.text = <<"1", "f">>
    /\ {"TIN", "TIN_LAST", "SHOUT"} \subseteq DOMAIN apply.result.val.variables
    /\ apply.result.val.variables["TIN"] = <<"1", "f">>
    /\ apply.result.val.variables["TIN_LAST"] = <<"f">>
    /\ apply.result.val.variables["SHOUT"] = <<"F">>

\* C5: a derive action leaves every variable that is in the map when it
\* runs as it is.
DeriveNeverOverwrites ==
    [][(apply.pc = "phase2" /\ apply'.pc = "phase2") =>
          \A v \in DOMAIN apply.all_variables :
              /\ v \in DOMAIN apply'.all_variables
              /\ apply'.all_variables[v] = apply.all_variables[v]]_vars

\* a derive of variable ran when the map held its source variable and already
\* held value for variable, and value is still there
DeriveSkipped(variable, value) ==
    \E j \in 1..Len(apply.log) :
        /\ IsDerive(apply.log[j].action)
        /\ apply.log[j].action.variable = variable
        /\ apply.log[j].action.from_var \in DOMAIN apply.log[j].given
        /\ variable \in DOMAIN apply.log[j].given
        /\ apply.log[j].given[variable] = value
        /\ apply.all_variables[variable] = value

\* C5 witness: the derive of TIN_LAST from TIN = "F2" was skipped because
\* phase 1 had set TIN_LAST = "X"
DeriveNeverOverwritesWitness ==
    /\ apply.pc = "returned"
    /\ IsSome(apply.result)
    /\ "TIN" \in DOMAIN apply.result.val.variables
    /\ apply.result.val.variables["TIN"] = <<"F", "2">>
    /\ DeriveSkipped("TIN_LAST", <<"X">>)

\* the places of the top-level criteria of the rule that fail on the text
FailingCriteria ==
    {i \in 1..Len(apply.rule.criteria) :
        ~CriterionMatch(apply.rule.criteria[i], apply.text).matches}

\* what top-level criterion i of the rule captures from the text
CapturedBy(i) == CriterionMatch(apply.rule.criteria[i], apply.text).captured

\* the union of the captures of the top-level criteria, a later criterion's
\* value for a name replacing an earlier one's
AllCaptured ==
    [k \in UNION {DOMAIN CapturedBy(i) : i \in 1..Len(apply.rule.criteria)} |->
        CapturedBy(Max({i \in 1..Len(apply.rule.criteria) : k \in DOMAIN CapturedBy(i)}))[k]]

\* C13: apply returns None exactly when some top-level criterion fails, and
\* then it has run no action and holds no variable, whatever the criteria
\* before the failing one captured; when every criterion matches, the
\* variable map before the first action is the union of the criteria
\* captures.
CriteriaGateAndSeed ==
    /\ (apply.pc = "returned" /\ ~IsRaised(apply.result)) =>
           (IsNone(apply.result) <=> FailingCriteria # {})
    /\ (apply.pc = "returned" /\ IsNone(apply.result)) =>
           /\ apply.log = <<>>
           /\ apply.all_variables = EmptyDict
    /\ (apply.pc \in {"phase1", "phase2"}) => FailingCriteria = {}
    /\ (apply.pc = "phase1" /\ apply.log = <<>>) => apply.all_variables = AllCaptured
    /\ (apply.pc = "returned" /\ IsSome(apply.result)) =>
           \A k \in DOMAIN AllCaptured : k \in DOMAIN apply.result.val.variables

\* C13 witness: three criteria matched and two of them captured; the
\* variables hold both captures before any action has run
CriteriaGateAndSeedWitness ==
    /\ apply.pc = "phase1"
    /\ apply.log = <<>>
    /\ apply.queue # <<>>
    /\ Len(apply.rule.criteria) = 3
    /\ DOMAIN apply.all_variables = {"NUM", "RAW"}
    /\ apply.all_variables["NUM"] = <<"1">>
    /\ apply.all_variables["RAW"] = <<"1", "f">>

\* ------------------------------------------------------------------------
\* AllCriterion.match and AnyCriterion.match followed step by step: one
\* composite criterion matched against one text
\* ------------------------------------------------------------------------
\* the longest list of sub-criteria
MaxChildren == 2

\* the sub-criteria: a digit captured as NUM, the first word captured as
\* RAW, an "f", a digit captured as RAW, and a nested any and a nested all
SubCriteriaPool ==
    { RegexCriterion(Pattern(<<Once(Digits)>>, <<>>), TRUE, Some("NUM")),
      RegexCriterion(Pattern(<<Many(Word)>>, <<>>), TRUE, Some("RAW")),
      ContainsCriterion(<<"f">>, TRUE),
      RegexCriterion(Pattern(<<Once(Digits)>>, <<>>), TRUE, Some("RAW")),
      AnyCriterion(<<ContainsCriterion(<<" ">>, TRUE),
                     RegexCriterion(Pattern(<<Once(Spaces)>>, <<>>), TRUE, Some("GAP"))>>),
      AllCriterion(<<RegexCriterion(Pattern(<<Once(Spaces)>>, <<>>), TRUE, Some("GAP")),
                     ContainsCriterion(<<"f">>, FALSE)>>) }

CompositePool ==
    {AllCriterion(subs) : subs \in SeqsUpTo(SubCriteriaPool, MaxChildren)}
    \cup {AnyCriterion(subs) : subs \in SeqsUpTo(SubCriteriaPool, MaxChildren)}

\* the frame of match(text): the place i of the next sub-criterion, the
\* places evaluated so far, all_captured, and the result once returned
MatchFrame(criterion, text, at, i, evaluated, all_captured, result) ==
    [pc |-> at, criterion |-> criterion, text |-> text, i |-> i,
     evaluated |-> evaluated, all_captured |-> all_captured, result |-> result]

InitCriterion ==
    /\ InitProcessor
    /\ apply = NoApply
    /\ \E criterion \in CompositePool, text \in ApplyTexts :
           frame = MatchFrame(criterion, text, "match", 1, <<>>, EmptyDict, NoneV)

\* variant: a failing sub-criterion returns the captures made so far
AllStep_keep_captures ==
    /\ frame.pc = "match"
    /\ frame.criterion.type = "all"
    /\ frame.i <= Len(frame.criterion.sub_criteria)
    /\ \E r \in {CriterionMatch(frame.criterion.sub_criteria[frame.i], frame.text)} :
           IF ~r.matches
           THEN frame' = [frame EXCEPT
                    !.pc = "returned",
                    !.evaluated = Append(@, frame.i),
                    !.result = Some(MatchResult(FALSE, frame.all_captured))]
           ELSE frame' = [frame EXCEPT
                    !.i = @ + 1,
                    !.evaluated = Append(@, frame.i),
                    !.all_captured = DictUpdate(@, r.captured)]
    /\ UNCHANGED <<global_rules, form_rules, idle_vars>>

\* AllCriterion.match: one iteration of the loop over self.sub_criteria
AllStep ==
    /\ frame.pc = "match"
    /\ frame.criterion.type = "all"
    /\ frame.i <= Len(frame.criterion.sub_criteria)
    /\ \E r \in {CriterionMatch(frame.criterion.sub_criteria[frame.i], frame.text)} :
           IF ~r.matches
           THEN frame' = [frame EXCEPT
                    !.pc = "returned",
                    !.evaluated = Append(@, frame.i),
                    !.result = Some(MatchResult(FALSE, EmptyDict))]
           ELSE frame' = [frame EXCEPT
                    !.i = @ + 1,
                    !.evaluated = Append(@, frame.i),
                    !.all_captured = DictUpdate(@, r.captured)]
    /\ UNCHANGED <<global_rules, form_rules, idle_vars>>

\* AllCriterion.match: return (True, all_captured)
AllReturn ==
    /\ frame.pc = "match"
    /\ frame.criterion.type = "all"
    /\ frame.i > Len(frame.criterion.sub_criteria)
    /\ frame' = [frame EXCEPT !.pc = "returned",
                              !.result = Some(MatchResult(TRUE, frame.all_captured))]
    /\ UNCHANGED <<global_rules, form_rules, idle_vars>>

\* variant: a matching sub-criterion adds its captures and the loop goes on
AnyStep_union ==
    /\ frame.pc = "match"
    /\ frame.criterion.type = "any"
    /\ frame.i <= Len(frame.criterion.sub_criteria)
    /\ \E r \in {CriterionMatch(frame.criterion.sub_criteria[frame.i], frame.text)} :
           IF r.matches /\ frame.i = Len(frame.criterion.sub_criteria)
           THEN frame' = [frame EXCEPT
                    !.pc = "returned",
                    !.evaluated = Append(@, frame.i),
                    !.result = Some(MatchResult(TRUE,
                                        DictUpdate(frame.all_captured, r.captured)))]
           ELSE frame' = [frame EXCEPT
                    !.i = @ + 1,
                    !.evaluated = Append(@, frame.i),
                    !.all_captured = IF r.matches THEN DictUpdate(@, r.captured) ELSE @]
    /\ UNCHANGED <<global_rules, form_rules, idle_vars>>

\* AnyCriterion.match: one iteration of the loop over self.sub_criteria
AnyStep ==
    /\ frame.pc = "match"
    /\ frame.criterion.type = "any"
    /\ frame.i <= Len(frame.criterion.sub_criteria)
    /\ \E r \in {CriterionMatch(frame.criterion.sub_criteria[frame.i], frame.text)} :
           IF r.matches
           THEN frame' = [frame EXCEPT
                    !.pc = "returned",
                    !.evaluated = Append(@, frame.i),
                    !.result = Some(MatchResult(TRUE, r.captured))]
           ELSE frame' = [frame EXCEPT
                    !.i = @ + 1,
                    !.evaluated = Append(@, frame.i)]
    /\ UNCHANGED <<global_rules, form_rules, idle_vars>>

\* AnyCriterion.match: return (False, {})
AnyReturn ==
    /\ frame.pc = "match"
    /\ frame.criterion.type = "any"
    /\ frame.i > Len(frame.criterion.sub_criteria)
    /\ frame' = [frame EXCEPT !.pc = "returned",
                              !.result = Some(MatchResult(FALSE, EmptyDict))]
    /\ UNCHANGED <<global_rules, form_rules, idle_vars>>

NextCriterion ==
    \/ AllStep
    \/ AllReturn
    \/ AnyStep
    \/ AnyReturn

SpecCriterion == InitCriterion /\ [][NextCriterion]_vars

\* the step-by-step match returns what CriterionMatch computes
CriterionAgrees ==
    frame.pc = "returned" =>
        frame.result = Some(CriterionMatch(frame.criterion, frame.text))

\* the places of the sub-criteria of the frame's criterion that match the text
MatchingChildren ==
    {i \in 1..Len(frame.criterion.sub_criteria) :
        CriterionMatch(frame.criterion.sub_criteria[i], frame.text).matches}

\* what sub-criterion i of the frame's criterion captures from the text
ChildCaptured(i) == CriterionMatch(frame.criterion.sub_criteria[i], frame.text).captured

\* the places of the sub-criteria of the frame's criterion
Children == 1..Len(frame.criterion.sub_criteria)

\* C14: Any(children).match(text) is true exactly when some child matches,
\* so Any([]) is false; the children are evaluated in list order up to the
\* first that matches and no further, and the captures returned are that
\* child's captures alone.
AnyFirstMatchOnly ==
    (frame.pc = "returned" /\ frame.criterion.type = "any") =>
        /\ frame.result.val.matches <=> (MatchingChildren # {})
        /\ IF MatchingChildren # {}
           THEN /\ frame.result.val.captured = ChildCaptured(Min(MatchingChildren))
                /\ frame.evaluated = [j \in 1..Min(MatchingChildren) |-> j]
           ELSE /\ frame.result.val.captured = EmptyDict
                /\ frame.evaluated = [j \in Children |-> j]

\* C14 witness: two children match and capture different names; only the
\* first was evaluated and only its capture is returned
AnyFirstMatchOnlyWitness ==
    /\ frame.pc = "returned"
    /\ frame.criterion.type = "any"
    /\ MatchingChildren = {1, 2}
    /\ DOMAIN ChildCaptured(1) = {"NUM"}
    /\ DOMAIN ChildCaptured(2) = {"RAW"}
    /\ frame.evaluated = <<1>>
    /\ frame.result.val = MatchResult(TRUE, ChildCaptured(1))

\* C15: All(children).match(text) is true exactly when every child matches,
\* so All([]) is true; on success the captures are the union of the
\* children's captures; on the first failing child the evaluation stops, no
\* later child is evaluated and the captures returned are empty.
AllUnionOrNothing ==
    (frame.pc = "returned" /\ frame.criterion.type = "all") =>
        /\ frame.result.val.matches <=> (MatchingChildren = Children)
        /\ IF MatchingChildren = Children
           THEN /\ frame.result.val.captured =
                       [k \in UNION {DOMAIN ChildCaptured(i) : i \in Children} |->
                           ChildCaptured(Max({i \in Children :
                                                  k \in DOMAIN ChildCaptured(i)}))[k]]
                /\ frame.evaluated = [j \in Children |-> j]
           ELSE /\ frame.result.val.captured = EmptyDict
                /\ frame.evaluated =
                       [j \in 1..Min(Children \ MatchingChildren) |-> j]

\* C15 witness: the first child captured, the second failed; the result is
\* false with no captures
AllUnionOrNothingWitness ==
    /\ frame.pc = "returned"
    /\ frame.criterion.type = "all"
    /\ MatchingChildren = {1}
    /\ Children = {1, 2}
    /\ ChildCaptured(1) # EmptyDict
    /\ frame.result.val = MatchResult(FALSE, EmptyDict)

\* ------------------------------------------------------------------------
\* One iteration of an action loop of Rule.apply: one action acting on one
\* text and one variable map
\* ------------------------------------------------------------------------
\* a pattern with one capture group: a word character and, in the group, a digit
DigitsGrouped == Pattern(<<Once(Word), Once(Digits)>>, <<<<2, 2>>>>)

\* the actions of ApplyActionPool, and actions whose input is missing: a
\* source variable no map holds, a pattern that matches no text, group
\* indexes 1, 2 and -1 of a pattern with one group, and split indexes past
\* the parts and below zero
ActPool ==
    ApplyActionPool \cup
    { DeriveAction("OUT", "MISSING", "upper", <<>>),
      DeriveAction("OUT", "TIN", "reverse", <<>>),
      ExtractAction("OUT", "MISSING", "split", [index |-> 0]),
      ExtractAction("OUT", "TIN", "split", [index |-> 5]),
      ExtractAction("OUT", "TIN", "split", [index |-> -1]),
      ExtractAction("OUT", "TIN", "join", <<>>),
      RegexExtractAction("OUT", Pattern(<<Once({"f"}), Once({"f"})>>, <<>>), 0, TRUE),
      RegexExtractAction("OUT", DigitsGrouped, 1, TRUE),
      RegexExtractAction("OUT", DigitsGrouped, 2, TRUE),
      RegexExtractAction("OUT", DigitsGrouped, -1, TRUE),
      RegexExtractAction("OUT", DigitsGrouped, 0, FALSE),
      SetAction("OUT", NoneV) }

\* the variable maps an action is given
ActVariables ==
    { EmptyDict,
      [TIN |-> <<"F", "2">>],
      [TIN |-> <<"1", " ", "2">>, TIN_LAST |-> <<"X">>, OUT |-> <<"o">>] }

\* the frame of one loop iteration: the action, what act() returned, and
\* all_variables after the iteration
ActFrame(action, text, all_variables, at, result, after) ==
    [pc |-> at, action |-> action, text |-> text, all_variables |-> all_variables,
     result |-> result, after |-> after]

InitAct ==
    /\ InitProcessor
    /\ apply = NoApply
    /\ \E action \in ActPool, text \in ApplyTexts, all_variables \in ActVariables :
           frame = ActFrame(action, text, all_variables, "act", NoneV, all_variables)

\* result = action.act(text, all_variables), and the write of a result that
\* is not None; an exception leaves the loop with the map as it was
ActCall ==
    /\ frame.pc = "act"
    /\ \E result \in {Act(frame.action, frame.text, frame.all_variables)} :
           frame' = [frame EXCEPT
               !.pc = "acted",
               !.result = result,
               !.after = IF IsRaised(result) THEN frame.all_variables
                         ELSE ActionStep(frame.action, frame.text, frame.all_variables).val]
    /\ UNCHANGED <<global_rules, form_rules, idle_vars>>

NextAct == ActCall

SpecAct == InitAct /\ [][NextAct]_vars

\* whether the action of the frame lacks what it needs to produce a value
MissingInput ==
    \/ /\ frame.action.type \in {"derive", "extract"}
       /\ frame.action.from_var \notin DOMAIN frame.all_variables
    \/ /\ frame.action.type = "regex_extract"
       /\ frame.action.from_text
       /\ \/ IsNone(ReSearch(frame.action.pattern, frame.text))
          \/ frame.action.group > Len(frame.action.pattern.groups)
          \/ frame.action.group < 0
    \/ /\ frame.action.type = "extract"
       /\ frame.action.from_var \in DOMAIN frame.all_variables
       /\ frame.action.method = "split"
       /\ \/ ArgOr(frame.action.args, "index", 0) < 0
          \/ ArgOr(frame.action.args, "index", 0) >=
                 Len(ReSplit(ArgOr(frame.action.args, "pattern", DefaultSplitPattern),
                             frame.all_variables[frame.action.from_var]))

\* C16 as claimed: act() never raises; an action that lacks its input (an
\* absent from_var, a pattern without a match, a group index the match does
\* not have, a split index out of range) returns None; and after an act()
\* that returned None the variable map is what it was.
ActNeverRaises ==
    frame.pc = "acted" =>
        /\ ~IsRaised(frame.result)
        /\ MissingInput => IsNone(frame.result)
        /\ IsNone(frame.result) => frame.after = frame.all_variables

\* the part of C16 that the code keeps: an act() that returned None is
\* followed by no write
NoneLeavesVariables ==
    (frame.pc = "acted" /\ IsNone(frame.result)) => frame.after = frame.all_variables

\* ------------------------------------------------------------------------
\* RuleParser.parse_dict followed step by step: one configuration parsed
\* ------------------------------------------------------------------------
\* the longest criteria list and actions list of a configuration
MaxConfigItems == 1

\* raise ValueError(message), the message naming the fields in names
ValueError(names) == [tag |-> "raise", exc |-> "ValueError", names |-> names]

\* a pattern string that re does not compile
InvalidPattern == [valid |-> FALSE, atoms |-> <<>>, groups |-> <<>>]

\* whether data.get(key) is falsy
Falsy(data, key) == key \notin DOMAIN data \/ data[key] = ""

CriterionTypes == {"contains", "regex", "all", "any"}

ActionTypes == {"set", "regex_extract", "derive", "extract"}

RECURSIVE ParseCriterion(_)
RECURSIVE ParseCriterionList(_, _, _)
\* [self._parse_criterion(c) for c in items] from item i on: the list of
\* the parsed criteria, or the first exception
ParseCriterionList(items, i, parsed) ==
    IF i > Len(items) THEN Some(parsed)
    ELSE Bind(ParseCriterion(items[i]), LAMBDA c :
         IF IsRaised(c) THEN c
         ELSE ParseCriterionList(items, i + 1, Append(parsed, c.val)))

\* _parse_criterion(data)
ParseCriterion(data) ==
    IF Falsy(data, "type") THEN ValueError({"type"})
    ELSE CASE data.type = "contains" ->
                 Some(ContainsCriterion(ArgOr(data, "value", NoneV),
                                        ArgOr(data, "case_sensitive", TRUE)))
           [] data.type = "regex" ->
                 Some(RegexCriterion(ArgOr(data, "pattern", NoneV),
                                     ArgOr(data, "capture", FALSE),
                                     IF "variable" \in DOMAIN data
                                     THEN Some(data.variable) ELSE NoneV))
           [] data.type = "all" ->
                 Bind(ParseCriterionList(ArgOr(data, "criteria", <<>>), 1, <<>>),
                      LAMBDA subs : IF IsRaised(subs) THEN subs
                                    ELSE Some(AllCriterion(subs.val)))
           [] data.type = "any" ->
                 Bind(ParseCriterionList(ArgOr(data, "criteria", <<>>), 1, <<>>),
                      LAMBDA subs : IF IsRaised(subs) THEN subs
                                    ELSE Some(AnyCriterion(subs.val)))
           [] OTHER -> ValueError({data.type})

\* variant: from_text is on when the configuration does not give it
ParseAction_from_text_on(data) ==
    IF Falsy(data, "type") THEN ValueError({"type"})
    ELSE CASE data.type = "set" ->
                 Some(SetAction(ArgOr(data, "variable", ""),
                                IF "value" \in DOMAIN data THEN Some(data.value) ELSE NoneV))
           [] data.type = "regex_extract" ->
                 Some(RegexExtractAction(ArgOr(data, "variable", ""),
                                         ArgOr(data, "pattern", NoneV),
                                         ArgOr(data, "group", 0),
                                         ArgOr(data, "from_text", TRUE)))
           [] data.type = "derive" ->
                 Some(DeriveAction(ArgOr(data, "variable", ""), ArgOr(data, "from", NoneV),
                                   ArgOr(data, "method", NoneV), ArgOr(data, "args", <<>>)))
           [] data.type = "extract" ->
                 Some(ExtractAction(ArgOr(data, "variable", ""), ArgOr(data, "from", NoneV),
                                    ArgOr(data, "method", NoneV), ArgOr(data, "args", <<>>)))
           [] OTHER -> ValueError({data.type})

\* _parse_action(data)
ParseAction(data) ==
    IF Falsy(data, "type") THEN ValueError({"type"})
    ELSE CASE data.type = "set" ->
                 Some(SetAction(ArgOr(data, "variable", ""),
                                IF "value" \in DOMAIN data THEN Some(data.value) ELSE NoneV))
           [] data.type = "regex_extract" ->
                 Some(RegexExtractAction(ArgOr(data, "variable", ""),
                                         ArgOr(data, "pattern", NoneV),
                                         ArgOr(data, "group", 0),
                                         ArgOr(data, "from_text", FALSE)))
           [] data.type = "derive" ->
                 Some(DeriveAction(ArgOr(data, "variable", ""), ArgOr(data, "from", NoneV),
                                   ArgOr(data, "method", NoneV), ArgOr(data, "args", <<>>)))
           [] data.type = "extract" ->
                 Some(ExtractAction(ArgOr(data, "variable", ""), ArgOr(data, "from", NoneV),
                                    ArgOr(data, "method", NoneV), ArgOr(data, "args", <<>>)))
           [] OTHER -> ValueError({data.type})

RECURSIVE ParseActionList(_, _, _)
\* [self._parse_action(a) for a in items] from item i on
ParseActionList(items, i, parsed) ==
    IF i > Len(items) THEN Some(parsed)
    ELSE Bind(ParseAction(items[i]), LAMBDA a :
         IF IsRaised(a) THEN a
         ELSE ParseActionList(items, i + 1, Append(parsed, a.val)))

\* the fields of the Rule dataclass
RuleFields ==
    {"rule_id", "description", "global_variables", "local_variables", "criteria", "actions"}

\* Rule(**kwargs): the generated __init__ takes exactly the fields of the
\* dataclass as keywords
RuleInit(kwargs) ==
    IF DOMAIN kwargs = RuleFields THEN Some(kwargs) ELSE Raised("TypeError")

\* the configurations of criteria: with a valid and an invalid pattern, an
\* invalid pattern inside an all, an unknown type, and no type
CriterionConfigs ==
    { [type |-> "contains", value |-> <<"f">>, case_sensitive |-> FALSE],
      [type |-> "regex", pattern |-> Pattern(<<Once(Digits)>>, <<>>),
       capture |-> TRUE, variable |-> "TIN"],
      [type |-> "regex", pattern |-> InvalidPattern],
      [type |-> "all", criteria |-> <<[type |-> "regex", pattern |-> InvalidPattern]>>],
      [type |-> "fuzzy", value |-> <<"f">>],
      [value |-> <<"f">>] }

\* the configurations of actions
ActionConfigs ==
    { [type |-> "set", variable |-> "FORM_NAME", value |-> <<"W", "2">>],
      [type |-> "regex_extract", variable |-> "TIN",
       pattern |-> Pattern(<<Many(Digits)>>, <<>>), from_text |-> TRUE],
      [type |-> "regex_extract", variable |-> "TIN", pattern |-> InvalidPattern],
      [type |-> "compute", variable |-> "TIN"],
      [variable |-> "TIN"] }

\* the rule configurations: with and without an identifier, criteria and
\* actions
RuleConfigs ==
    { id @@ c @@ a :
        id \in {EmptyDict, [form_name |-> "W2"], [rule_name |-> "tin"], [form_name |-> ""],
                [form_name |-> "W2", variables |-> [local |-> <<"FORM_NAME">>]]},
        c \in {EmptyDict} \cup
              {[criteria |-> l] : l \in SeqsUpTo(CriterionConfigs, MaxConfigItems)},
        a \in {EmptyDict} \cup
              {[actions |-> l] : l \in SeqsUpTo(ActionConfigs, MaxConfigItems)} }

\* the frame of parse_dict(data): the rule_id, the parsed criteria and
\* actions so far, and the result once returned
ParseFrame(data, at, rule_id, criteria, actions, result) ==
    [pc |-> at, data |-> data, rule_id |-> rule_id, criteria |-> criteria,
     actions |-> actions, result |-> result]

InitParse ==
    /\ InitProcessor
    /\ apply = NoApply
    /\ \E data \in RuleConfigs : frame = ParseFrame(data, "fields", "", <<>>, <<>>, NoneV)

\* the identifier and the required fields
ParseRequiredFields ==
    /\ frame.pc = "fields"
    /\ frame' =
           IF Falsy(frame.data, "form_name") /\ Falsy(frame.data, "rule_name")
           THEN [frame EXCEPT !.pc = "returned",
                              !.result = ValueError({"form_name", "rule_name"})]
           ELSE IF "criteria" \notin DOMAIN frame.data
           THEN [frame EXCEPT !.pc = "returned", !.result = ValueError({"criteria"})]
           ELSE IF "actions" \notin DOMAIN frame.data
           THEN [frame EXCEPT !.pc = "returned", !.result = ValueError({"actions"})]
           ELSE [frame EXCEPT !.pc = "criteria",
                              !.rule_id = IF Falsy(frame.data, "form_name")
                                          THEN frame.data.rule_name
                                          ELSE frame.data.form_name]
    /\ UNCHANGED <<global_rules, form_rules, idle_vars>>

\* criteria = [self._parse_criterion(c) for c in data["criteria"]]
ParseCriteria ==
    /\ frame.pc = "criteria"
    /\ \E parsed \in {ParseCriterionList(frame.data.criteria, 1, <<>>)} :
           frame' = IF IsRaised(parsed)
                    THEN [frame EXCEPT !.pc = "returned", !.result = parsed]
                    ELSE [frame EXCEPT !.pc = "actions", !.criteria = parsed.val]
    /\ UNCHANGED <<global_rules, form_rules, idle_vars>>

\* actions = [self._parse_action(a) for a in data["actions"]]
ParseActions ==
    /\ frame.pc = "actions"
    /\ \E parsed \in {ParseActionList(frame.data.actions, 1, <<>>)} :
           frame' = IF IsRaised(parsed)
                    THEN [frame EXCEPT !.pc = "returned", !.result = parsed]
                    ELSE [frame EXCEPT !.pc = "rule", !.actions = parsed.val]
    /\ UNCHANGED <<global_rules, form_rules, idle_vars>>

\* return Rule(rule_id=..., description=..., global_variables=...,
\* local_variables=..., derived_variables=..., criteria=..., actions=...)
ParseReturnRule ==
    /\ frame.pc = "rule"
    /\ frame' = [frame EXCEPT
           !.pc = "returned",
           !.result = RuleInit([rule_id          |-> frame.rule_id,
                                description      |-> ArgOr(frame.data, "description", ""),
                                global_variables |->
                                    ArgOr(ArgOr(frame.data, "variables", EmptyDict), "global", <<>>),
                                local_variables  |->
                                    ArgOr(ArgOr(frame.data, "variables", EmptyDict), "local", <<>>),
                                derived_variables |->
                                    ArgOr(ArgOr(frame.data, "variables", EmptyDict), "derived", <<>>),
                                criteria         |-> frame.criteria,
                                actions          |-> frame.actions])]
    /\ UNCHANGED <<global_rules, form_rules, idle_vars>>

NextParse ==
    \/ ParseRequiredFields
    \/ ParseCriteria
    \/ ParseActions
    \/ ParseReturnRule

SpecParse == InitParse /\ [][NextParse]_vars

RECURSIVE HoldsInvalidPattern(_)
\* whether a criterion object, or one nested in it, holds a pattern that
\* re does not compile
HoldsInvalidPattern(c) ==
    CASE c.type = "regex" -> c.pattern # NoneV /\ ~c.pattern.valid
      [] c.type \in {"all", "any"} ->
             \E i \in 1..Len(c.sub_criteria) : HoldsInvalidPattern(c.sub_criteria[i])
      [] OTHER -> FALSE

RECURSIVE ConfiguresInvalidPattern(_)
\* whether a criterion or action configuration, or one nested in it, gives
\* a pattern that re does not compile to a regex criterion or action
ConfiguresInvalidPattern(data) ==
    /\ "type" \in DOMAIN data
    /\ \/ /\ data.type \in {"regex", "regex_extract"}
          /\ "pattern" \in DOMAIN data
          /\ ~data.pattern.valid
       \/ /\ data.type \in {"all", "any"}
          /\ "criteria" \in DOMAIN data
          /\ \E i \in 1..Len(data.criteria) : ConfiguresInvalidPattern(data.criteria[i])

\* whether the rule configuration has an invalid pattern among its criteria
\* or actions
RuleConfiguresInvalidPattern(data) ==
    \/ /\ "criteria" \in DOMAIN data
       /\ \E i \in 1..Len(data.criteria) : ConfiguresInvalidPattern(data.criteria[i])
    \/ /\ "actions" \in DOMAIN data
       /\ \E i \in 1..Len(data.actions) : ConfiguresInvalidPattern(data.actions[i])

\* C17: a regex criterion or a regex-extract action whose pattern is not a
\* valid regular expression is rejected while the rule is parsed: parse_dict
\* of such a configuration ends in a configuration error (ValueError), and
\* at no point of the parse is there a parsed criterion or action that holds
\* an invalid pattern.
InvalidPatternRejectedAtParse ==
    /\ \A i \in 1..Len(frame.criteria) : ~HoldsInvalidPattern(frame.criteria[i])
    /\ \A i \in 1..Len(frame.actions) :
           frame.actions[i].type = "regex_extract" => frame.actions[i].pattern.valid
    /\ (frame.pc = "returned" /\ RuleConfiguresInvalidPattern(frame.data))
           => (IsRaised(frame.result) /\ frame.result.exc = "ValueError")

\* the names a ValueError may carry for what the configuration lacks
MissingNames(data) ==
    (IF Falsy(data, "form_name") /\ Falsy(data, "rule_name")
     THEN {"form_name", "rule_name"} ELSE {})
    \cup (IF "criteria" \notin DOMAIN data THEN {"criteria"} ELSE {})
    \cup (IF "actions" \notin DOMAIN data THEN {"actions"} ELSE {})

RECURSIVE KnownCriterionTypes(_)
\* whether a criterion configuration uses known criterion types only
KnownCriterionTypes(data) ==
    /\ "type" \in DOMAIN data
    /\ data.type \in CriterionTypes
    /\ (data.type \in {"all", "any"} /\ "criteria" \in DOMAIN data)
           => \A i \in 1..Len(data.criteria) : KnownCriterionTypes(data.criteria[i])

\* whether the criteria and actions of a rule configuration use known types
\* only
KnownTypes(data) ==
    /\ \A i \in 1..Len(data.criteria) : KnownCriterionTypes(data.criteria[i])
    /\ \A i \in 1..Len(data.actions) :
           "type" \in DOMAIN data.actions[i] /\ data.actions[i].type \in ActionTypes

\* C18: parse_dict of a configuration that lacks criteria, actions or an
\* identifier (form_name or rule_name) raises a ValueError that names a
\* missing field and builds no Rule; parse_dict of a configuration that has
\* all three and known criterion and action types only returns a Rule.
ParseDictValidates ==
    frame.pc = "returned" =>
        /\ MissingNames(frame.data) # {} =>
               /\ IsRaised(frame.result)
               /\ frame.result.exc = "ValueError"
               /\ frame.result.names # {}
               /\ frame.result.names \subseteq MissingNames(frame.data)
        /\ (MissingNames(frame.data) = {} /\ KnownTypes(frame.data)) =>
               /\ IsSome(frame.result)
               /\ frame.result.val.rule_id \in {"W2", "tin"}

\* the half of C18 about incomplete configurations, which the parse keeps
MissingFieldNamed ==
    (frame.pc = "returned" /\ MissingNames(frame.data) # {}) =>
        /\ IsRaised(frame.result)
        /\ frame.result.exc = "ValueError"
        /\ frame.result.names # {}
        /\ frame.result.names \subseteq MissingNames(frame.data)

\* the places in a rule's actions of the set actions that give FORM_NAME a
\* value, when no other action of the rule writes FORM_NAME
OnlyFormNameSets(rule) ==
    {i \in 1..Len(rule.actions) :
        /\ rule.actions[i].type = "set"
        /\ rule.actions[i].variable = "FORM_NAME"
        /\ IsSome(rule.actions[i].value)
        /\ \A j \in 1..Len(rule.actions) : rule.actions[j].variable = "FORM_NAME" => j = i}

MaxFiles == 2

\* a rule file, as what self.parser.parse_file does with it: it returns a
\* Rule, or it raises for a configuration error
GlobalRuleFiles == {Some(r) : r \in GlobalRuleLibrary} \cup {ValueError({"criteria"})}

FormRuleFiles == {Some(FormW2), Some(Form1099), ValueError({"actions"})}

\* the frame of load_rules(rules_dir): the sorted files of global/ and of
\* forms/, the place in the loop, whether the call raised, and the rule
\* lists of the processor when the call began
LoadFrame(at, global_rule_files, form_rule_files, i, raised, rules_before) ==
    [pc |-> at, global_rule_files |-> global_rule_files,
     form_rule_files |-> form_rule_files, i |-> i, raised |-> raised,
     rules_before |-> rules_before]

InitLoad ==
    /\ global_rules \in SeqsUpTo({GlobalTin}, 1)
    /\ form_rules \in SeqsUpTo({FormUpper}, 1)
    /\ global_variables = EmptyDict
    /\ unmatched_documents = <<>>
    /\ pc = "idle"
    /\ batch = NoBatch
    /\ ret = NoneV
    /\ call = Call("init", <<>>, NoneV, FALSE, <<>>, FALSE)
    /\ apply = NoApply
    /\ \E gf \in SeqsUpTo(GlobalRuleFiles, MaxFiles), ff \in SeqsUpTo(FormRuleFiles, MaxFiles) :
           frame = LoadFrame("global", gf, ff, 1, FALSE,
                             [global_rules |-> global_rules, form_rules |-> form_rules])

\* one iteration of the loop over global_rule_files
LoadGlobalFile ==
    /\ frame.pc = "global"
    /\ frame.i <= Len(frame.global_rule_files)
    /\ \E rule \in {frame.global_rule_files[frame.i]} :
           IF IsRaised(rule)
           THEN /\ frame' = [frame EXCEPT !.pc = "returned", !.raised = TRUE]
                /\ UNCHANGED global_rules
           ELSE /\ global_rules' = Append(global_rules, rule.val)
                /\ frame' = [frame EXCEPT !.i = @ + 1]
    /\ UNCHANGED <<form_rules, idle_vars>>

\* the end of the first loop: form_rule_files = get_form_rule_files()
LoadFormFiles ==
    /\ frame.pc = "global"
    /\ frame.i > Len(frame.global_rule_files)
    /\ frame' = [frame EXCEPT !.pc = "forms", !.i = 1]
    /\ UNCHANGED <<global_rules, form_rules, idle_vars>>

\* one iteration of the loop over form_rule_files
LoadFormFile ==
    /\ frame.pc = "forms"
    /\ frame.i <= Len(frame.form_rule_files)
    /\ \E rule \in {frame.form_rule_files[frame.i]} :
           IF IsRaised(rule)
           THEN /\ frame' = [frame EXCEPT !.pc = "returned", !.raised = TRUE]
                /\ UNCHANGED form_rules
           ELSE /\ form_rules' = Append(form_rules, rule.val)
                /\ frame' = [frame EXCEPT !.i = @ + 1]
    /\ UNCHANGED <<global_rules, idle_vars>>

\* the end of the second loop: load_rules returns
LoadReturn ==
    /\ frame.pc = "forms"
    /\ frame.i > Len(frame.form_rule_files)
    /\ frame' = [frame EXCEPT !.pc = "returned"]
    /\ UNCHANGED <<global_rules, form_rules, idle_vars>>

NextLoad ==
    \/ LoadGlobalFile
    \/ LoadFormFiles
    \/ LoadFormFile
    \/ LoadReturn

SpecLoad == InitLoad /\ [][NextLoad]_vars

\* whether a list of rule files has one with a configuration error
HasBadFile(files) == \E i \in 1..Len(files) : IsRaised(files[i])

\* the rules of the files before the first one that parse_file raises for
RECURSIVE ParsedPrefix(_, _)
ParsedPrefix(files, i) ==
    IF i > Len(files) \/ IsRaised(files[i]) THEN <<>>
    ELSE <<files[i].val>> \o ParsedPrefix(files, i + 1)

LoadRulesKeepsParsedPrefix ==
    frame.pc = "returned" =>
        /\ frame.raised = (HasBadFile(frame.global_rule_files)
                           \/ HasBadFile(frame.form_rule_files))
        /\ global_rules = frame.rules_before.global_rules
                              \o ParsedPrefix(frame.global_rule_files, 1)
        /\ form_rules = frame.rules_before.form_rules
                            \o (IF HasBadFile(frame.global_rule_files) THEN <<>>
                                ELSE ParsedPrefix(frame.form_rule_files, 1))

\* C24: a process_document call that returns None leaves global_variables
\* as it was; what the global rules extracted from the unmatched document is
\* in the entry the call appends to unmatched_documents, and nowhere else.
UnmatchedNeverMerged ==
    [][(call'.op = "process_document" /\ IsNone(ret')) =>
          /\ global_variables' = global_variables
          /\ Len(unmatched_documents') = Len(unmatched_documents) + 1
          /\ unmatched_documents'[Len(unmatched_documents')].extracted_vars
                 = Extracted(call'.text)]_vars

\* C24 witness: an unmatched document from which the global rules extracted
\* a variable that global_variables does not hold
UnmatchedNeverMergedWitness ==
    /\ call.op = "process_document"
    /\ IsNone(ret)
    /\ Len(unmatched_documents) > 0
    /\ \E k \in DOMAIN unmatched_documents[Len(unmatched_documents)].extracted_vars :
           k \notin DOMAIN global_variables

\* C25: process_document returns the same value and leaves the same
\* global_variables and unmatched_documents with enforce_global=True as with
\* enforce_global=False: every process_document step, whatever its flag,
\* ends as the call does with either flag.
EnforceGlobalChangesNothing ==
    [][(call'.op = "process_document") =>
          \A enforce_global \in BOOLEAN :
              \E out \in {ProcessDocument(global_variables, unmatched_documents,
                                           global_rules, form_rules, call'.text,
                                           call'.document_id, enforce_global)} :
                  /\ ret' = out.ret
                  /\ global_variables' = out.global_variables
                  /\ unmatched_documents' = out.unmatched_documents]_vars

\* C25 witness: a direct call with enforce_global=True on a matched document
\* that extracted another value than the one global_variables holds
EnforceGlobalChangesNothingWitness ==
    /\ call.op = "process_document"
    /\ call.enforce_global
    /\ pc = "idle"
    /\ IsSome(ret)
    /\ \E k \in DOMAIN ret.val.global_variables :
           /\ k \in DOMAIN global_variables
           /\ global_variables[k] # ret.val.global_variables[k]

\* ------------------------------------------------------------------------
\* Rule.apply followed step by step on rules whose actions write the same
\* variables: a captured variable, a derived variable and its extract
\* ------------------------------------------------------------------------
\* the actions of these rules: RAW, which the criteria capture, is set and
\* is extracted from the text; MID is derived from RAW and is set; HEAD is
\* split off MID
WriteActionPool ==
    { SetAction("RAW", Some(<<"Y">>)),
      RegexExtractAction("RAW", Pattern(<<Once(Digits)>>, <<>>), 0, TRUE),
      DeriveAction("MID", "RAW", "upper", <<>>),
      ExtractAction("HEAD", "MID", "split", [index |-> 0]),
      SetAction("MID", Some(<<"M">>)) }

WriteRules ==
    { Rule("R", <<>>, <<>>, criteria, Placed(actions)) :
        criteria \in ApplyCriteriaPool, actions \in SeqsUpTo(WriteActionPool, MaxActions) }

InitWrites ==
    /\ InitProcessor
    /\ frame = NoFrame
    /\ \E rule \in WriteRules, text \in ApplyTexts :
           apply = ApplyFrame(rule, text, "criteria", <<>>, EmptyDict, <<>>, NoneV)

SpecWrites == InitWrites /\ [][NextApply]_vars

\* C26: in phase 1 of apply a non-derive action that returns a value writes
\* it to its variable whatever the variable held before, a captured value or
\* the value of an earlier phase-1 action, and changes no other variable; an
\* action that returns None changes nothing.
PhaseOneLastWriteWins ==
    [][(apply.pc = "phase1" /\ apply'.pc = "phase1") =>
          \E a \in {Head(apply.queue)} :
          \E result \in {Act(a, apply.text, apply.all_variables)} :
              /\ a.type # "derive"
              /\ IF IsSome(result)
                 THEN /\ DOMAIN apply'.all_variables
                             = (DOMAIN apply.all_variables) \cup {a.variable}
                      /\ apply'.all_variables[a.variable] = result.val
                      /\ \A v \in (DOMAIN apply.all_variables) \ {a.variable} :
                             apply'.all_variables[v] = apply.all_variables[v]
                 ELSE apply'.all_variables = apply.all_variables]_vars

\* C26 witness: the captured RAW was overwritten by a set action, and that
\* value by a regex extraction declared after it
PhaseOneLastWriteWinsWitness ==
    /\ apply.pc = "phase1"
    /\ Len(apply.log) = 2
    /\ apply.log[1].action.type = "set"
    /\ apply.log[1].action.variable = "RAW"
    /\ "RAW" \in DOMAIN apply.log[1].given
    /\ apply.log[1].given["RAW"] # <<"Y">>
    /\ apply.log[2].given["RAW"] = <<"Y">>
    /\ apply.log[2].action.type = "regex_extract"
    /\ apply.log[2].action.variable = "RAW"
    /\ apply.all_variables["RAW"] \in {<<"1">>, <<"2">>}

\* the variables that only derive actions of the rule write: not captured
\* by the criteria, and the variable of no non-derive action
DerivedOnly ==
    {a.variable : a \in {apply.rule.actions[i] : i \in 1..Len(apply.rule.actions)}}
    \ ({apply.rule.actions[i].variable :
           i \in {n \in 1..Len(apply.rule.actions) : apply.rule.actions[n].type # "derive"}}
       \cup (IF IsSome(CheckCriteria(apply.rule.criteria, 1, apply.text, EmptyDict))
             THEN DOMAIN CheckCriteria(apply.rule.criteria, 1, apply.text, EmptyDict).val
             ELSE {}))

\* C27: an extract action whose from_var only derive actions write returns
\* None whenever it runs, wherever it is declared: it runs in phase 1, when
\* no derive action has run, so the variable it writes is not in the result
\* unless something else writes it.
ExtractNeverSeesDerived ==
    /\ \A j \in 1..Len(apply.log) :
           (apply.log[j].action.type = "extract"
            /\ apply.log[j].action.from_var \in DerivedOnly) =>
               /\ apply.log[j].phase = "phase1"
               /\ apply.log[j].action.from_var \notin DOMAIN apply.log[j].given
               /\ IsNone(Act(apply.log[j].action, apply.text, apply.log[j].given))
    /\ (apply.pc = "returned" /\ IsSome(apply.result)) =>
           \A i \in 1..Len(apply.rule.actions) :
               (apply.rule.actions[i].type = "extract"
                /\ apply.rule.actions[i].from_var \in DerivedOnly
                /\ \A n \in 1..Len(apply.rule.actions) :
                       apply.rule.actions[n].variable = apply.rule.actions[i].variable
                           => apply.rule.actions[n].type = "extract"
                              /\ apply.rule.actions[n].from_var \in DerivedOnly) =>
                   \/ apply.rule.actions[i].variable \notin DOMAIN apply.result.val.variables
                   \/ apply.rule.actions[i].variable \in
                          DOMAIN CheckCriteria(apply.rule.criteria, 1, apply.text, EmptyDict).val

\* C27 witness: the derive of MID is declared before the extract of HEAD
\* from MID; the result has MID and has no HEAD
ExtractNeverSeesDerivedWitness ==
    /\ apply.pc = "returned"
    /\ IsSome(apply.result)
    /\ Len(apply.rule.actions) = 2
    /\ apply.rule.actions[1].type = "derive"
    /\ apply.rule.actions[1].variable = "MID"
    /\ apply.rule.actions[2].type = "extract"
    /\ apply.rule.actions[2].from_var = "MID"
    /\ "MID" \in DerivedOnly
    /\ "MID" \in DOMAIN apply.result.val.variables
    /\ "HEAD" \notin DOMAIN apply.result.val.variables

\* ------------------------------------------------------------------------
\* an action configuration parsed by _parse_action, and the parsed action
\* run in one iteration of an action loop of Rule.apply
\* ------------------------------------------------------------------------
\* regex_extract configurations with and without from_text and group
RegexExtractConfigs ==
    { [type |-> "regex_extract", variable |-> "OUT", pattern |-> p] @@ ft @@ g :
        p \in {Pattern(<<Many(Digits)>>, <<>>), DigitsGrouped, Pattern(<<Once(Char)>>, <<>>)},
        ft \in {EmptyDict, [from_text |-> TRUE], [from_text |-> FALSE]},
        g \in {EmptyDict, [group |-> 1]} }

\* the frame: the configuration, the action parsed from it, what act()
\* returned and all_variables after the iteration
ParsedActFrame(data, at, action, text, all_variables, result, after) ==
    [pc |-> at, data |-> data, action |-> action, text |-> text,
     all_variables |-> all_variables, result |-> result, after |-> after]

InitParsedAct ==
    /\ InitProcessor
    /\ apply = NoApply
    /\ \E data \in RegexExtractConfigs \cup ActionConfigs, text \in ApplyTexts,
          all_variables \in ActVariables :
           frame = ParsedActFrame(data, "config", NoneV, text, all_variables,
                                  NoneV, all_variables)

\* action = self._parse_action(data)
ParseActionCall ==
    /\ frame.pc = "config"
    /\ \E parsed \in {ParseAction(frame.data)} :
           frame' = IF IsRaised(parsed)
                    THEN [frame EXCEPT !.pc = "raised", !.result = parsed]
                    ELSE [frame EXCEPT !.pc = "parsed", !.action = parsed.val]
    /\ UNCHANGED <<global_rules, form_rules, idle_vars>>

\* result = action.act(text, all_variables), and the write of a result that
\* is not None
ParsedActCall ==
    /\ frame.pc = "parsed"
    /\ \E result \in {Act(frame.action, frame.text, frame.all_variables)} :
           frame' = [frame EXCEPT
               !.pc = "acted",
               !.result = result,
               !.after = IF IsRaised(result) THEN frame.all_variables
                         ELSE ActionStep(frame.action, frame.text, frame.all_variables).val]
    /\ UNCHANGED <<global_rules, form_rules, idle_vars>>

NextParsedAct ==
    \/ ParseActionCall
    \/ ParsedActCall

SpecParsedAct == InitParsedAct /\ [][NextParsedAct]_vars

\* C28: the regex_extract action parsed from a configuration without
\* from_text has from_text=False; its act() returns None for every text and
\* variable map, and its variable is not written.
OmittedFromTextNeverExtracts ==
    (frame.pc \in {"parsed", "acted"}
     /\ frame.data.type = "regex_extract"
     /\ "from_text" \notin DOMAIN frame.data) =>
        /\ frame.action.type = "regex_extract"
        /\ frame.action.from_text = FALSE
        /\ frame.pc = "acted" =>
               /\ IsNone(frame.result)
               /\ frame.after = frame.all_variables

\* C28 witness: the pattern of a configuration without from_text matches the
\* text, and the action returned None and OUT was not written
OmittedFromTextNeverExtractsWitness ==
    /\ frame.pc = "acted"
    /\ frame.data.type = "regex_extract"
    /\ "from_text" \notin DOMAIN frame.data
    /\ IsSome(ReSearch(frame.data.pattern, frame.text))
    /\ IsNone(frame.result)
    /\ "OUT" \notin DOMAIN frame.after

\* ------------------------------------------------------------------------
\* one Rule object applied to a sequence of texts, one after the other
\* ------------------------------------------------------------------------
\* the most texts one rule is applied to
MaxHistory == 3

\* variant: the captured values of the call before are still there
FreshCaptures_carried(previous) == previous

\* all_captured_values = {} at the start of apply: a new dictionary, whatever
\* the dictionary of the call before holds
FreshCaptures(previous) == EmptyDict

\* apply(text) from the criteria loop on, with all_captured_values as given
RuleApplyFrom(rule, text, all_captured_values) ==
    Bind(CheckCriteria(rule.criteria, 1, text, all_captured_values), LAMBDA captured :
    IF IsNone(captured) THEN NoneV
    ELSE Bind(RunActions(NonDeriveActions(rule.actions), 1, text, captured.val), LAMBDA phase1 :
         IF IsRaised(phase1) THEN phase1
         ELSE Bind(RunActions(DeriveActions(rule.actions), 1, text, phase1.val), LAMBDA phase2 :
              IF IsRaised(phase2) THEN phase2
              ELSE Some([rule_id          |-> rule.rule_id,
                         variables        |-> phase2.val,
                         rule_description |-> rule.description]))))

PureTexts == {<<"1", "f">>, <<"f">>, <<" ">>}

\* the rules: the criteria lists of ApplyCriteriaPool, and an any whose
\* children capture different variables, so that what is captured depends on
\* the text
PureRules ==
    { Rule("R", <<>>, <<>>, criteria, actions) :
        criteria \in ApplyCriteriaPool \cup
            {<<AnyCriterion(<<RegexCriterion(Pattern(<<Once(Digits)>>, <<>>), TRUE, Some("NUM")),
                              RegexCriterion(Pattern(<<Many(Word)>>, <<>>), TRUE, Some("RAW"))>>)>>},
        actions \in {<<>>,
                     <<DeriveAction("MID", "RAW", "upper", <<>>)>>,
                     <<RegexExtractAction("TIN", Pattern(<<Many(Word)>>, <<>>), 0, TRUE),
                       DeriveAction("NUM", "TIN", "slice", [start |-> Some(-1)])>>} }

\* the texts to apply the rule to, the place of the next one, the
\* dictionary of captured values the last call left, and what each call
\* returned: the (matched, captured) of every criterion and the result
PureFrame(texts, at, i, all_captured_values, results) ==
    [pc |-> at, texts |-> texts, i |-> i, all_captured_values |-> all_captured_values,
     results |-> results]

InitPure ==
    /\ global_rules = <<>>
    /\ form_rules \in {<<rule>> : rule \in PureRules}
    /\ global_variables = EmptyDict
    /\ unmatched_documents = <<>>
    /\ pc = "idle"
    /\ batch = NoBatch
    /\ ret = NoneV
    /\ call = Call("init", <<>>, NoneV, FALSE, <<>>, FALSE)
    /\ apply = NoApply
    /\ \E texts \in SeqsUpTo(PureTexts, MaxHistory) :
           frame = PureFrame(texts, "evaluate", 1, EmptyDict, <<>>)

\* criterion.match(text) for every criterion of the rule, and
\* rule.apply(text), on the next text
PureEvaluate ==
    /\ frame.pc = "evaluate"
    /\ frame.i <= Len(frame.texts)
    /\ \E rule \in {form_rules[1]}, text \in {frame.texts[frame.i]} :
       \E seed \in {FreshCaptures(frame.all_captured_values)} :
       \E captured \in {CheckCriteria(rule.criteria, 1, text, seed)} :
           frame' = [frame EXCEPT
               !.i = @ + 1,
               !.all_captured_values = IF IsSome(captured) THEN captured.val ELSE seed,
               !.results = Append(@,
                   [matches |-> [k \in 1..Len(rule.criteria) |->
                                    CriterionMatch(rule.criteria[k], text)],
                    applied |-> RuleApplyFrom(rule, text, seed)])]
    /\ UNCHANGED <<global_rules, form_rules, idle_vars>>

\* no text is left
PureDone ==
    /\ frame.pc = "evaluate"
    /\ frame.i > Len(frame.texts)
    /\ frame' = [frame EXCEPT !.pc = "done"]
    /\ UNCHANGED <<global_rules, form_rules, idle_vars>>

NextPure ==
    \/ PureEvaluate
    \/ PureDone

SpecPure == InitPure /\ [][NextPure]_vars

MaxRuleFiles == 2

\* parse_dict(data) as far as its last statement: the exception of the
\* checks and of the criteria and actions, or the keywords of the Rule call
ParseDictKeywords(data) ==
    IF Falsy(data, "form_name") /\ Falsy(data, "rule_name")
    THEN ValueError({"form_name", "rule_name"})
    ELSE IF "criteria" \notin DOMAIN data THEN ValueError({"criteria"})
    ELSE IF "actions" \notin DOMAIN data THEN ValueError({"actions"})
    ELSE Bind(ParseCriterionList(data.criteria, 1, <<>>), LAMBDA criteria :
         IF IsRaised(criteria) THEN criteria
         ELSE Bind(ParseActionList(data.actions, 1, <<>>), LAMBDA actions :
              IF IsRaised(actions) THEN actions
              ELSE Some([rule_id |-> IF Falsy(data, "form_name")
                                     THEN data.rule_name ELSE data.form_name,
                         description |-> ArgOr(data, "description", ""),
                         global_variables |->
                             ArgOr(ArgOr(data, "variables", EmptyDict), "global", <<>>),
                         local_variables |->
                             ArgOr(ArgOr(data, "variables", EmptyDict), "local", <<>>),
                         derived_variables |->
                             ArgOr(ArgOr(data, "variables", EmptyDict), "derived", <<>>),
                         criteria |-> criteria.val,
                         actions |-> actions.val])))

\* parse_dict(data)
ParseDict(data) ==
    Bind(ParseDictKeywords(data), LAMBDA kwargs :
    IF IsRaised(kwargs) THEN kwargs ELSE RuleInit(kwargs.val))

\* what self.parser.parse_dict(data) does for the validator: what it does
\* with the Rule class of rules/rule.py, and what it does with a Rule class
\* that has the derived_variables field (the one of processor/rule.py)
ParseDictOutcomes(data) == {ParseDict(data), ParseDictKeywords(data)}

\* the elements of a list
Elements(list) == {list[i] : i \in 1..Len(list)}

\* a rule file: whether yaml.safe_load reads it, and the data it holds
RuleFile(yaml_ok, data) == [yaml_ok |-> yaml_ok, data |-> data]

\* the rule of the validated files: complete, and all its variables declared
ValidData ==
    [form_name |-> "W2",
     variables |-> [global |-> <<"TIN">>, local |-> <<"FORM_NAME">>],
     criteria  |-> <<[type |-> "contains", value |-> <<"f">>]>>,
     actions   |-> <<[type |-> "set", variable |-> "FORM_NAME", value |-> <<"W", "2">>]>>]

\* the validated files: the valid rule; one with an undeclared action
\* variable and an undeclared derive source; one with a global variable the
\* schema does not have; one with a criterion without type nested in a
\* contains criterion; one without criteria; one with an unknown criterion
\* type; and one that is not YAML
ValidatedFiles ==
    { RuleFile(TRUE, ValidData),
      RuleFile(TRUE, [ValidData EXCEPT
          !.actions = <<[type |-> "derive", variable |-> "OTHER", from |-> "SOURCE",
                         method |-> "upper"]>>]),
      RuleFile(TRUE, [ValidData EXCEPT !.variables = [global |-> <<"BOGUS">>,
                                                      local |-> <<"FORM_NAME">>]]),
      RuleFile(TRUE, [ValidData EXCEPT
          !.criteria = <<[type |-> "contains", value |-> <<"f">>,
                          criteria |-> <<[value |-> <<"f">>]>>]>>]),
      RuleFile(TRUE, [form_name |-> "W2", variables |-> [global |-> <<>>],
                      actions |-> <<>>]),
      RuleFile(TRUE, [ValidData EXCEPT !.criteria = <<[type |-> "fuzzy"]>>]),
      RuleFile(FALSE, EmptyDict) }

\* _validate_variable_usage: the warnings it appends
VariableUsageWarnings(data) ==
    Bind(Elements(ArgOr(data.variables, "global", <<>>))
             \cup Elements(ArgOr(data.variables, "local", <<>>))
             \cup Elements(ArgOr(data.variables, "derived", <<>>)), LAMBDA declared_vars :
    LET OfAction(action) ==
            (IF "variable" \in DOMAIN action /\ action.variable \notin declared_vars
             THEN <<"undeclared variable">> ELSE <<>>)
            \o (IF "type" \in DOMAIN action /\ action.type = "derive"
                   /\ "from" \in DOMAIN action /\ action.from \notin declared_vars
                THEN <<"undeclared source variable">> ELSE <<>>)
        RECURSIVE From(_)
        From(i) == IF i > Len(ArgOr(data, "actions", <<>>)) THEN <<>>
                   ELSE OfAction(data.actions[i]) \o From(i + 1)
    IN  From(1))

RECURSIVE CriteriaErrors(_, _)
\* _validate_criteria from criterion i on: the errors it appends
CriteriaErrors(criteria, i) ==
    IF i > Len(criteria) THEN <<>>
    ELSE (IF "type" \notin DOMAIN criteria[i] THEN <<"criterion missing type">> ELSE <<>>)
         \o (IF "criteria" \in DOMAIN criteria[i]
             THEN CriteriaErrors(criteria[i].criteria, 1) ELSE <<>>)
         \o CriteriaErrors(criteria, i + 1)

RECURSIVE ActionsErrors(_, _)
\* _validate_actions from action i on: the errors it appends
ActionsErrors(actions, i) ==
    IF i > Len(actions) THEN <<>>
    ELSE (IF "type" \notin DOMAIN actions[i] THEN <<"action missing type">> ELSE <<>>)
         \o ActionsErrors(actions, i + 1)

RECURSIVE ActionsWarnings(_, _)
\* _validate_actions from action i on: the warnings it appends
ActionsWarnings(actions, i) ==
    IF i > Len(actions) THEN <<>>
    ELSE (IF "variable" \notin DOMAIN actions[i]
             /\ ~("type" \in DOMAIN actions[i] /\ actions[i].type = "extract")
          THEN <<"action missing variable">> ELSE <<>>)
         \o ActionsWarnings(actions, i + 1)

\* validate_rule_file on a file that exists: what it returns, and the
\* errors and warnings lists it leaves; parsed is what parse_dict did
ValidateRuleFile(errors, warnings, global_variables_schema, file, parsed) ==
    IF ~file.yaml_ok
    THEN [ret |-> FALSE, errors |-> Append(errors, "invalid YAML"), warnings |-> warnings]
    ELSE IF {"form_name", "variables", "criteria", "actions"} \ DOMAIN file.data # {}
    THEN [ret |-> FALSE, errors |-> Append(errors, "missing required field"),
          warnings |-> warnings]
    ELSE IF IsRaised(parsed)
    THEN [ret |-> FALSE, errors |-> Append(errors, "failed to parse"), warnings |-> warnings]
    ELSE [ret |-> TRUE,
          errors |->
              errors
              \o (IF global_variables_schema # {}
                     /\ Elements(ArgOr(file.data.variables, "global", <<>>))
                            \ global_variables_schema # {}
                  THEN <<"invalid global variables">> ELSE <<>>)
              \o CriteriaErrors(file.data.criteria, 1)
              \o ActionsErrors(file.data.actions, 1),
          warnings |->
              warnings \o VariableUsageWarnings(file.data)
                       \o ActionsWarnings(file.data.actions, 1)]

InitValidate ==
    /\ InitProcessor
    /\ apply = NoApply
    /\ \E yaml_files \in SeqsUpTo(ValidatedFiles, MaxRuleFiles),
          schema \in {{}, {"TIN"}} :
           frame = [pc |-> "start", yaml_files |-> yaml_files, schema |-> schema,
                    global_variables |-> {}, errors |-> <<>>, warnings |-> <<>>,
                    i |-> 1, all_valid |-> TRUE, calls |-> <<>>, ret |-> NoneV]

\* validate_directory as far as the loop: the schema is loaded, and a
\* directory without rule files is an error
ValidateDirectoryStart ==
    /\ frame.pc = "start"
    /\ frame' = IF frame.yaml_files = <<>>
                THEN [frame EXCEPT !.pc = "returned",
                                   !.global_variables = frame.schema,
                                   !.errors = Append(@, "no rule files"),
                                   !.ret = Some(FALSE)]
                ELSE [frame EXCEPT !.pc = "files", !.global_variables = frame.schema]
    /\ UNCHANGED <<global_rules, form_rules, idle_vars>>

\* one iteration of the loop over the files: validate_rule_file
ValidateDirectoryFile ==
    /\ frame.pc = "files"
    /\ frame.i <= Len(frame.yaml_files)
    /\ \E file \in {frame.yaml_files[frame.i]} :
       \E parsed \in (IF file.yaml_ok THEN ParseDictOutcomes(file.data) ELSE {NoneV}) :
       \E out \in {ValidateRuleFile(frame.errors, frame.warnings,
                                     frame.global_variables, file, parsed)} :
           frame' = [frame EXCEPT
               !.i = @ + 1,
               !.errors = out.errors,
               !.warnings = out.warnings,
               !.all_valid = @ /\ out.ret,
               !.calls = Append(@, [ret |-> out.ret,
                                    errors |-> SubSeq(out.errors, Len(frame.errors) + 1,
                                                      Len(out.errors)),
                                    warnings |-> SubSeq(out.warnings, Len(frame.warnings) + 1,
                                                        Len(out.warnings))])]
    /\ UNCHANGED <<global_rules, form_rules, idle_vars>>

\* return all_valid
ValidateDirectoryReturn ==
    /\ frame.pc = "files"
    /\ frame.i > Len(frame.yaml_files)
    /\ frame' = [frame EXCEPT !.pc = "returned", !.ret = Some(frame.all_valid)]
    /\ UNCHANGED <<global_rules, form_rules, idle_vars>>

NextValidate ==
    \/ ValidateDirectoryStart
    \/ ValidateDirectoryFile
    \/ ValidateDirectoryReturn

SpecValidate == InitValidate /\ [][NextValidate]_vars

FailureHasError ==
    /\ \A n \in 1..Len(frame.calls) :
           ~frame.calls[n].ret => frame.calls[n].errors # <<>>
    /\ (frame.pc = "returned" /\ frame.ret = Some(FALSE)) => frame.errors # <<>>

\* ------------------------------------------------------------------------
\* NominalOrchestrator: process_directory over a directory of PDF files
\* ------------------------------------------------------------------------
MaxPdfFiles == 3

\* names of the PDF files of the input directory, in glob order
PdfNames == <<"a", "b", "c", "d", "e">>

\* what reader.read_pdf gives for a file: its text (possibly empty), or the
\* RuntimeError it raises for a file it cannot read
ReadOutcomes ==
    {Some(t) : t \in Documents} \cup {Some(<<>>), Raised("RuntimeError")}

PdfFile(name, read) == [name |-> name, read |-> read]

\* the decimal digits of a natural number, as str(counter) writes them
RECURSIVE Decimal(_)
Decimal(n) ==
    IF n < 10 THEN <<<<"0", "1", "2", "3", "4", "5", "6", "7", "8", "9">>[n + 1]>>
    ELSE Decimal(n \div 10) \o Decimal(n % 10)

\* str(rule_id) as the characters of the file name
RuleIdText(rule_id) ==
    CASE rule_id = "W2"   -> <<"W", "2">>
      [] rule_id = "1099" -> <<"1", "0", "9", "9">>
      [] rule_id = "UP"   -> <<"U", "P">>
      [] OTHER            -> <<"t", "i", "n">>

\* orchestrator-level derivation functions: "year" returns a constant,
\* "fails" raises
DerivationFunction(func, all_vars) ==
    IF func = "year" THEN Some(<<"2", "4">>) ELSE Raised("KeyError")

\* the variables the loaded rules declare
GetAllDeclaredVariables(g_rules, f_rules) ==
    UNION {Elements(r.global_variables) \cup Elements(r.local_variables) :
               r \in Elements(g_rules) \cup Elements(f_rules)}

\* _validate_pattern: the placeholders that are not available
InvalidPlaceholders(pattern, g_rules, f_rules, derived) ==
    {p \in Elements(pattern) :
        p \notin GetAllDeclaredVariables(g_rules, f_rules) \cup DOMAIN derived}

\* the dictionary both _apply_orchestrator_derivations and
\* _generate_filename build from a result
ResultAllVars(result) ==
    DictUpdate(DictUpdate(("rule_id" :> RuleIdText(result.rule_id)) @@
                          ("document_id" :> <<result.document_id.name>>),
                          result.global_variables),
               result.local_variables)

\* _apply_orchestrator_derivations: every derivation is computed from the
\* variables of the result as process_document returned it; one that raises
\* is skipped
ApplyOrchestratorDerivations(result, derived) ==
    [result EXCEPT !.local_variables =
        DictUpdate(result.local_variables,
                   [v \in {d \in DOMAIN derived :
                              IsSome(DerivationFunction(derived[d], ResultAllVars(result)))}
                      |-> DerivationFunction(derived[v], ResultAllVars(result)).val])]

\* "".join(c for c in str(val) if c.isalnum() or c in ("-", "_")), and
\* UNKNOWN for an empty value
Sanitize(val) ==
    Bind(SelectSeq(val, LAMBDA c : c \notin Spaces), LAMBDA kept :
    IF kept = <<>> THEN <<"U", "N", "K", "N", "O", "W", "N">> ELSE kept)

\* _generate_filename for a pattern "{p1}_{p2}_..." given as its placeholders
RECURSIVE GenerateFilenameFrom(_, _, _)
GenerateFilenameFrom(all_vars, pattern, i) ==
    IF i > Len(pattern) THEN <<>>
    ELSE (IF i > 1 THEN <<"_">> ELSE <<>>)
         \o Sanitize(IF pattern[i] \in DOMAIN all_vars THEN all_vars[pattern[i]]
                     ELSE <<>>)
         \o GenerateFilenameFrom(all_vars, pattern, i + 1)

GenerateFilename(result, pattern) ==
    GenerateFilenameFrom(ResultAllVars(result), pattern, 1)

\* the loop over counter: the first "<name>_<counter>" that does not exist
RECURSIVE FreePathFrom(_, _, _)
FreePathFrom(output, new_filename, counter) ==
    IF new_filename \o <<"_">> \o Decimal(counter) \notin DOMAIN output
    THEN new_filename \o <<"_">> \o Decimal(counter)
    ELSE FreePathFrom(output, new_filename, counter + 1)

\* variant: the generated name is used whether or not it exists
FreePath_overwrite(output, new_filename) == new_filename

\* new_path after "Handle duplicate filenames"
FreePath(output, new_filename) ==
    IF new_filename \in DOMAIN output THEN FreePathFrom(output, new_filename, 1)
    ELSE new_filename

\* _process_file as a function of the processor's state and the output
\* directory: what it returns or raises (ret), and the state it leaves
ProcessFile(gv, unmatched, g_rules, f_rules, output, file, pattern, derived) ==
    LET same(r) == [ret |-> r, global_variables |-> gv,
                    unmatched_documents |-> unmatched, output |-> output]
    IN  IF IsRaised(file.read) THEN same(file.read)
        ELSE IF file.read.val = <<>> THEN same(Some(FALSE))
        ELSE Bind(ProcessDocument(gv, unmatched, g_rules, f_rules, file.read.val,
                                  Some(GivenDocId(file.name)), FALSE), LAMBDA doc :
             IF IsRaised(doc.ret)
             THEN [ret |-> doc.ret, global_variables |-> doc.global_variables,
                   unmatched_documents |-> doc.unmatched_documents, output |-> output]
             ELSE IF IsNone(doc.ret)
             THEN [ret |-> Some(FALSE), global_variables |-> doc.global_variables,
                   unmatched_documents |-> doc.unmatched_documents, output |-> output]
             ELSE [ret |-> Some(TRUE), global_variables |-> doc.global_variables,
                   unmatched_documents |-> doc.unmatched_documents,
                   output |->
                       DictSet(output,
                               FreePath(output,
                                   GenerateFilename(
                                       ApplyOrchestratorDerivations(doc.ret.val, derived),
                                       pattern)),
                               file.name)])

\* paths of the unmatched/ subdirectory
UnmatchedPath(name) == [prefix |-> "", name |-> name]

ErrorPath(name) == [prefix |-> "error_", name |-> name]

FilenamePatterns == {<<"FORM_NAME">>, <<"TIN", "YEAR">>, <<"BOGUS">>}

DerivedVariables == {EmptyDict, "YEAR" :> "year", "YEAR" :> "fails"}

\* output directories a run starts with: empty, or holding a file of an
\* earlier run
ExistingOutputs == {EmptyDict, <<"W", "2">> :> "old"}

\* destinations in unmatched/ that copy2 cannot write
Unwritables == SUBSET {UnmatchedPath(PdfNames[1]), ErrorPath(PdfNames[1])}

ZeroStats == [total |-> 0, matched |-> 0, unmatched |-> 0, errors |-> 0]

OrchestratorFrame(pattern, derived, input_exists, pdf_files, unwritable, existing) ==
    [pc |-> "start", pattern |-> pattern, derived |-> derived,
     input_exists |-> input_exists, pdf_files |-> pdf_files,
     unwritable |-> unwritable, existing |-> existing,
     i |-> 1, stats |-> ZeroStats, output_created |-> FALSE,
     output |-> existing, unmatched_dir |-> {}, reads |-> {}, ret |-> NoneV]

\* NominalOrchestrator(rules_dir, derived_variables=...) over loaded rules,
\* and the arguments of one process_directory call; a missing input
\* directory has no files
InitOrchestrate ==
    /\ global_rules = <<GlobalTin>>
    /\ form_rules = <<FormW2>>
    /\ global_variables = EmptyDict
    /\ unmatched_documents = <<>>
    /\ pc = "idle" /\ batch = NoBatch /\ ret = NoneV /\ call = NoneV
    /\ apply = NoApply
    /\ \E pattern \in FilenamePatterns, derived \in DerivedVariables,
          input_exists \in BOOLEAN, n \in 0..MaxPdfFiles,
          unwritable \in Unwritables, existing \in ExistingOutputs :
          \E reads \in [1..n -> ReadOutcomes] :
              /\ input_exists \/ n = 0
              /\ frame = OrchestratorFrame(pattern, derived, input_exists,
                                           [k \in 1..n |-> PdfFile(PdfNames[k], reads[k])],
                                           unwritable, existing)

\* variant: the output directory is created before the pattern is validated
ProcessDirectoryStart_create_first ==
    /\ frame.pc = "start"
    /\ frame' =
         IF ~frame.input_exists
         THEN [frame EXCEPT !.pc = "returned", !.ret = Raised("FileNotFoundError")]
         ELSE IF InvalidPlaceholders(frame.pattern, global_rules, form_rules,
                                     frame.derived) # {}
         THEN [frame EXCEPT !.pc = "returned", !.ret = Raised("ValueError"),
                            !.output_created = TRUE]
         ELSE [frame EXCEPT !.pc = "files", !.output_created = TRUE,
                            !.stats = [ZeroStats EXCEPT !.total = Len(frame.pdf_files)]]
    /\ UNCHANGED <<global_rules, form_rules, idle_vars>>

\* process_directory up to the loop: _validate_pattern, the input directory
\* test, mkdir of the output directory and of unmatched/, glob, stats
ProcessDirectoryStart ==
    /\ frame.pc = "start"
    /\ frame' =
         IF InvalidPlaceholders(frame.pattern, global_rules, form_rules,
                                frame.derived) # {}
         THEN [frame EXCEPT !.pc = "returned", !.ret = Raised("ValueError")]
         ELSE IF ~frame.input_exists
         THEN [frame EXCEPT !.pc = "returned", !.ret = Raised("FileNotFoundError")]
         ELSE [frame EXCEPT !.pc = "files", !.output_created = TRUE,
                            !.stats = [ZeroStats EXCEPT !.total = Len(frame.pdf_files)]]
    /\ UNCHANGED <<global_rules, form_rules, idle_vars>>

\* one iteration of "for pdf_file in pdf_files": _process_file, the
\* statistics, the copy into unmatched/, and the except branch. An
\* exception of the copy in the try block is handled by the except branch;
\* one of the copy in the except branch leaves process_directory. The
\* error log files are written by _write_error_log, which swallows its
\* exceptions, and are not part of the state.
ProcessDirectoryFile ==
    /\ frame.pc = "files"
    /\ frame.i <= Len(frame.pdf_files)
    /\ \E file \in {frame.pdf_files[frame.i]} :
       \E done \in {ProcessFile(global_variables, unmatched_documents, global_rules,
                                form_rules, frame.output, file, frame.pattern,
                                frame.derived)} :
       \E read \in {[frame EXCEPT !.reads = @ \cup {file.name},
                                  !.output = done.output,
                                  !.i = @ + 1]} :
          /\ global_variables' = done.global_variables
          /\ unmatched_documents' = done.unmatched_documents
          /\ \E tried \in
                 {IF IsRaised(done.ret) THEN [read EXCEPT !.ret = done.ret]
                  ELSE IF done.ret.val
                  THEN [read EXCEPT !.stats.matched = @ + 1]
                  ELSE IF UnmatchedPath(file.name) \in frame.unwritable
                  THEN [read EXCEPT !.stats.unmatched = @ + 1,
                                    !.ret = Raised("OSError")]
                  ELSE [read EXCEPT !.stats.unmatched = @ + 1,
                                    !.unmatched_dir = @ \cup {UnmatchedPath(file.name)}]} :
                frame' =
                    IF ~IsRaised(tried.ret) THEN tried
                    ELSE IF ErrorPath(file.name) \in frame.unwritable
                    THEN [tried EXCEPT !.pc = "returned", !.stats.errors = @ + 1]
                    ELSE [tried EXCEPT !.stats.errors = @ + 1, !.ret = NoneV,
                                       !.unmatched_dir = @ \cup {ErrorPath(file.name)}]
    /\ UNCHANGED <<global_rules, form_rules, pc, batch, ret, call, apply>>

\* return stats
ProcessDirectoryReturn ==
    /\ frame.pc = "files"
    /\ frame.i > Len(frame.pdf_files)
    /\ frame' = [frame EXCEPT !.pc = "returned", !.ret = Some(frame.stats)]
    /\ UNCHANGED <<global_rules, form_rules, idle_vars>>

NextOrchestrate ==
    \/ ProcessDirectoryStart
    \/ ProcessDirectoryFile
    \/ ProcessDirectoryReturn

SpecOrchestrate == InitOrchestrate /\ [][NextOrchestrate]_vars
\* the files process_directory has counted so far
Counted == frame.stats.matched + frame.stats.unmatched + frame.stats.errors

\* C22: process_directory puts every PDF of the input directory into exactly
\* one of matched, unmatched and errors: after each file the three counters
\* add up to the number of files handled, a file whose processing raised has
\* its copy unmatched/error_<name>, and the call returns the statistics of
\* all the files with total == matched + unmatched + errors
EveryFileCountedOnce ==
    /\ frame.pc = "files" => Counted = frame.i - 1
    /\ \A k \in 1..Len(frame.pdf_files) :
           (k < frame.i /\ IsRaised(frame.pdf_files[k].read))
               => ErrorPath(frame.pdf_files[k].name) \in frame.unmatched_dir
    /\ (frame.pc = "returned" /\ frame.output_created)
           => /\ frame.ret = Some(frame.stats)
              /\ frame.i = Len(frame.pdf_files) + 1
              /\ frame.stats.total = Len(frame.pdf_files)
              /\ frame.stats.total = Counted

\* the part of C22 the loop keeps: when every copy into unmatched/ succeeds,
\* each file is counted once and the call returns the statistics
CountedOnceWhenCopiesSucceed ==
    frame.unwritable = {} => EveryFileCountedOnce

====
